---- MODULE Spec2Model ----
(***************************************************************************)
(* Model of the WoSB marketplace bot core:                                 *)
(*   - TradeConversationManager (the exclusive-pairing registry) together  *)
(*     with the handlers and background loops that drive it, and the       *)
(*     trade_conversations table they write;                               *)
(*   - SubmissionManager (the pending-submission store) together with the  *)
(*     submission workflow handlers.                                       *)
(* Time is counted in ticks; one tick is the unit in which the timeouts    *)
(* are expressed.                                                          *)
(***************************************************************************)
EXTENDS Integers, Sequences, FiniteSets, TLC

(* ------------------------------ bounds -------------------------------- *)
MaxTime == 2
MaxConvs == 2
NumHandlers == 2
NumCalls == 3
MaxRestarts == 1
MaxRequests == 3
MaxSubs == 2
NumItemIDs == 2

(* ------------------------- program constants -------------------------- *)
Timeout == 1
StaleAfter == 1
(* SubmissionManager.timeout; the submission workflow counts time in this unit *)
SubmissionTimeout == 1

Users == {"A", "B", "C"}
NoUser == "-"
(* the users who own an open player order that can be contacted *)
OrderOwners == {"B", "C"}

(* goroutine slots that are reused request after request, and request    *)
(* slots that serve one request and keep its response                    *)
Handlers == 1..NumHandlers
Calls == (NumHandlers + 1)..(NumHandlers + NumCalls)
Slots == Handlers \cup Calls
Refs == 1..MaxConvs

(* the users who submit screenshots, the raw item names the OCR reads,   *)
(* the item and port ids of the registry                                 *)
Submitters == {"A"}
Names == {"Cannon", "Wood"}
ItemIDs == 1..NumItemIDs
PortIDs == {1}
SubRefs == 1..MaxSubs

VARIABLES
    now,            \* time.Now(), in ticks
    heap,           \* the *ActiveConversation objects, by reference
    conversations,  \* TradeConversationManager.conversations: user -> reference
    db,             \* the trade_conversations table, row id = index
    hs,             \* the request handlers in flight
    tc,             \* Bot.conversationTimeoutChecker
    restarts,       \* number of process restarts so far
    reqs,           \* number of requests the reused handler slots have taken
    submissions,    \* SubmissionManager.submissions: user -> reference
    pending,        \* the *PendingSubmission objects, by reference
    ws,             \* the submission workflow handlers in flight
    ui,             \* the prompts on display that each user can still answer
    prompted,       \* per submission object: its payload and the item prompts shown for it
    call,           \* the latest direct call of a SubmissionManager method, and its result
    firstID,        \* per submission object and raw name: the id of the first AddItemMapping call
    notified,       \* the rows whose two participants the timeout checker has sent the closure notice
    query           \* the latest call of a function of the name resolver: its arguments and results

convvars == <<heap, conversations, db, hs, tc, restarts, notified>>
subvars == <<submissions, pending, ws, ui, prompted, call, firstID>>
vars == <<now, heap, conversations, db, hs, tc, restarts, reqs,
          submissions, pending, ws, ui, prompted, call, firstID, notified,
          query>>

(* --------------------------- ActiveConversation ------------------------ *)
NoConv == 0
NoObj == [ConversationID |-> 0, InitiatorUserID |-> NoUser,
          CreatorUserID |-> NoUser, LastActivity |-> 0 - 1]

ActiveConversation(id, init, creator, la) ==
    [ConversationID |-> id, InitiatorUserID |-> init,
     CreatorUserID |-> creator, LastActivity |-> la]

GetOtherParty(ac, userID) ==
    IF userID = ac.InitiatorUserID THEN ac.CreatorUserID ELSE ac.InitiatorUserID

Participants(ac) == {ac.InitiatorUserID, ac.CreatorUserID}

(* a conversation is live iff now - lastActivity <= timeout *)
Live(ac, t) == t - ac.LastActivity <= Timeout

(* the key of userID holds a non-timed-out entry *)
Busy(convs, hp, userID, t) ==
    convs[userID] # NoConv /\ Live(hp[convs[userID]], t)

(* --------------------- TradeConversationManager ------------------------ *)
TryRegisterOKInitiatorOnly(convs, hp, init, creator, t) ==
    ~Busy(convs, hp, init, t)

TryRegisterOK(convs, hp, init, creator, t) ==
    ~Busy(convs, hp, init, t) /\ ~Busy(convs, hp, creator, t)

RegisterInitiatorKeyOnly(convs, ref, init, creator) ==
    [convs EXCEPT ![init] = ref]

Register(convs, ref, init, creator) ==
    [convs EXCEPT ![init] = ref, ![creator] = ref]

(* the same check with "<" in the place of "<=" *)
HasActiveConversationStrict(convs, hp, userID, t) ==
    IF convs[userID] = NoConv THEN FALSE
    ELSE t - hp[convs[userID]].LastActivity < Timeout

HasActiveConversation(convs, hp, userID, t) ==
    IF convs[userID] = NoConv THEN FALSE
    ELSE t - hp[convs[userID]].LastActivity <= Timeout

GetByUser(convs, hp, userID, t) ==
    IF convs[userID] = NoConv THEN NoConv
    ELSE IF t - hp[convs[userID]].LastActivity > Timeout THEN NoConv
    ELSE convs[userID]

Touch(convs, hp, userID, t) ==
    IF convs[userID] # NoConv
    THEN [hp EXCEPT ![convs[userID]].LastActivity = t]
    ELSE hp

Remove(convs, hp, id, init, creator) ==
    [u \in Users |->
        IF u \in {init, creator} /\ convs[u] # NoConv
           /\ hp[convs[u]].ConversationID = id
        THEN NoConv ELSE convs[u]]

CleanupSweep(convs, hp, t) ==
    [u \in Users |->
        IF convs[u] # NoConv /\ t - hp[convs[u]].LastActivity > Timeout
        THEN NoConv ELSE convs[u]]

(* ------------------------------ the heap ------------------------------- *)
FreeRef(hp) == CHOOSE r \in Refs : hp[r] = NoObj /\ \A q \in Refs : hp[q] = NoObj => r <= q

HasFreeRef(hp) == \E r \in Refs : hp[r] = NoObj

(* objects that neither the map nor a handler refers to are collected *)
Collect(hp, convs, handlers) ==
    [r \in Refs |->
        IF (\E u \in Users : convs[u] = r) \/ (\E h \in Slots : handlers[h].ac = r)
        THEN hp[r] ELSE NoObj]

(* ------------------------- trade_conversations ------------------------- *)
TradeConversation(init, creator, t) ==
    [InitiatorUserID |-> init, CreatorUserID |-> creator,
     Status |-> "active", LastMessageAt |-> t]

(* a closed row is never read again: only its status is kept *)
ClosedRow == [InitiatorUserID |-> NoUser, CreatorUserID |-> NoUser,
              Status |-> "closed", LastMessageAt |-> 0]

CloseTradeConversation(table, id) ==
    IF id \in 1..Len(table) THEN [table EXCEPT ![id] = ClosedRow] ELSE table

UpdateConversationActivity(table, id, t) ==
    IF id \in 1..Len(table) /\ table[id].Status = "active"
    THEN [table EXCEPT ![id].LastMessageAt = t] ELSE table

RECURSIVE SelectIds(_, _, _)
SelectIds(table, i, t) ==
    IF i > Len(table) THEN <<>>
    ELSE IF table[i].Status = "active" /\ table[i].LastMessageAt < t
         THEN <<i>> \o SelectIds(table, i + 1, t)
         ELSE SelectIds(table, i + 1, t)

RECURSIVE Rows(_, _)
Rows(table, ids) ==
    IF ids = <<>> THEN <<>>
    ELSE <<[ID |-> Head(ids), InitiatorUserID |-> table[Head(ids)].InitiatorUserID,
            CreatorUserID |-> table[Head(ids)].CreatorUserID]>> \o Rows(table, Tail(ids))

GetStaleConversations(table, t) == Rows(table, SelectIds(table, 1, t - StaleAfter))

GetAllActiveConversations(table) == Rows(table, SelectIds(table, 1, MaxTime + 1))

(* ---------------------------- PendingSubmission ------------------------ *)
NoSub == 0
NoPort == 0
EmptyMappings == [n \in {} |-> 0]

MarketItem(name, price, quantity) ==
    [Name |-> name, Price |-> price, Quantity |-> quantity]

(* the OCR payloads submitted (AnalyzeScreenshot rejects an empty list)   *)
Payloads ==
    { <<MarketItem("Wood", 10, 5)>>,
      <<MarketItem("Cannon", 100, 3), MarketItem("Wood", 10, 5),
        MarketItem("Cannon", 90, 1)>> }

NilSub == [UserID |-> NoUser, Port |-> "", OrderType |-> "", Items |-> <<>>, ExpiresAt |-> 0,
           PortConfirmed |-> FALSE, PortID |-> NoPort,
           ItemMappings |-> EmptyMappings, ItemsConfirmed |-> FALSE]

(* the payloads above were all read at one port from a list of buy orders *)
PendingSubmission(userID, items, t) ==
    [UserID |-> userID, Port |-> "Port Royale", OrderType |-> "buy",
     Items |-> items, ExpiresAt |-> t + SubmissionTimeout,
     PortConfirmed |-> FALSE, PortID |-> NoPort,
     ItemMappings |-> EmptyMappings, ItemsConfirmed |-> FALSE]

(* SubmissionManager.Create: the new object replaces whatever the user had *)
Create(subs, ref, userID) == [subs EXCEPT ![userID] = ref]

(* SubmissionManager.Get *)
GetWhateverIsStored(subs, hp, userID, t) == subs[userID]

Get(subs, hp, userID, t) ==
    IF subs[userID] = NoSub THEN NoSub
    ELSE IF t > hp[subs[userID]].ExpiresAt THEN NoSub
    ELSE subs[userID]

(* SubmissionManager.Remove *)
RemoveSubmission(subs, userID) == [subs EXCEPT ![userID] = NoSub]

(* SubmissionManager.ConfirmPort: its result, and the objects after it *)
ConfirmPortOK(subs, userID) == subs[userID] # NoSub

ConfirmPort(subs, hp, userID, portID) ==
    IF subs[userID] = NoSub THEN hp
    ELSE [hp EXCEPT ![subs[userID]].PortID = portID,
                    ![subs[userID]].PortConfirmed = TRUE]

(* SubmissionManager.AddItemMapping: its result, and the objects after it *)
AddItemMappingOK(subs, hp, userID, ocrName) ==
    /\ subs[userID] # NoSub
    /\ ocrName \notin DOMAIN hp[subs[userID]].ItemMappings

AddItemMappingOverwrite(subs, hp, userID, ocrName, itemID) ==
    IF subs[userID] = NoSub THEN hp
    ELSE LET m == hp[subs[userID]].ItemMappings
         IN [hp EXCEPT ![subs[userID]].ItemMappings =
                [n \in DOMAIN m \cup {ocrName} |-> IF n = ocrName THEN itemID ELSE m[n]]]

AddItemMapping(subs, hp, userID, ocrName, itemID) ==
    IF ~AddItemMappingOK(subs, hp, userID, ocrName) THEN hp
    ELSE LET m == hp[subs[userID]].ItemMappings
         IN [hp EXCEPT ![subs[userID]].ItemMappings =
                [n \in DOMAIN m \cup {ocrName} |-> IF n = ocrName THEN itemID ELSE m[n]]]

(* SubmissionManager.MarkItemsConfirmed (no handler calls it) *)
MarkItemsConfirmed(subs, hp, userID) ==
    IF subs[userID] = NoSub THEN hp
    ELSE [hp EXCEPT ![subs[userID]].ItemsConfirmed = TRUE]

(* SubmissionManager.IsReady *)
IsReady(subs, hp, userID) ==
    /\ subs[userID] # NoSub
    /\ hp[subs[userID]].PortConfirmed
    /\ hp[subs[userID]].ItemsConfirmed

(* the loop of GetMarketOrders: one order per payload line whose name is  *)
(* mapped, lines with an unmapped name being skipped                      *)
RECURSIVE BuildOrders(_, _)
BuildOrders(items, mappings) ==
    IF items = <<>> THEN <<>>
    ELSE IF Head(items).Name \notin DOMAIN mappings
         THEN BuildOrders(Tail(items), mappings)
         ELSE <<[ItemID |-> mappings[Head(items).Name],
                 Price |-> Head(items).Price,
                 Quantity |-> Head(items).Quantity]>>
              \o BuildOrders(Tail(items), mappings)

(* SubmissionManager.GetMarketOrders; the nil slice is the empty sequence *)
GetMarketOrders(subs, hp, userID) ==
    IF \/ subs[userID] = NoSub
       \/ ~hp[subs[userID]].PortConfirmed
       \/ ~hp[subs[userID]].ItemsConfirmed
    THEN <<>>
    ELSE BuildOrders(hp[subs[userID]].Items, hp[subs[userID]].ItemMappings)

(* SubmissionManager.cleanup *)
cleanup(subs, hp, t) ==
    [u \in DOMAIN subs |->
        IF subs[u] # NoSub /\ t > hp[subs[u]].ExpiresAt THEN NoSub ELSE subs[u]]

(* PendingSubmission.GetUniqueOCRItems, as the names in order of first    *)
(* occurrence                                                             *)
RECURSIVE UniqueFrom(_, _)
UniqueFrom(items, seen) ==
    IF items = <<>> THEN <<>>
    ELSE IF Head(items).Name \in seen THEN UniqueFrom(Tail(items), seen)
    ELSE <<Head(items).Name>> \o UniqueFrom(Tail(items), seen \cup {Head(items).Name})

GetUniqueOCRItems(items) == UniqueFrom(items, {})

(* PendingSubmission.GetUnconfirmedItems *)
RECURSIVE Unmapped(_, _)
Unmapped(names, mappings) ==
    IF names = <<>> THEN <<>>
    ELSE IF Head(names) \in DOMAIN mappings THEN Unmapped(Tail(names), mappings)
    ELSE <<Head(names)>> \o Unmapped(Tail(names), mappings)

GetUnconfirmedItems(sub) == Unmapped(GetUniqueOCRItems(sub.Items), sub.ItemMappings)

(* PendingSubmission.IsComplete *)
IsComplete(sub) ==
    Cardinality(DOMAIN sub.ItemMappings) = Len(GetUniqueOCRItems(sub.Items))

(* a reference not in use, and the objects that can still be reached      *)
FreeSub(hp) == CHOOSE r \in SubRefs : hp[r] = NilSub /\ \A q \in SubRefs : hp[q] = NilSub => r <= q
HasFreeSub(hp) == \E r \in SubRefs : hp[r] = NilSub
CollectSubs(hp, subs, handlers) ==
    [r \in SubRefs |->
        IF (\E u \in DOMAIN subs : subs[u] = r) \/ (\E h \in DOMAIN handlers : handlers[h].sub = r)
        THEN hp[r] ELSE NilSub]

(* the record kept of one submission workflow: the number of distinct raw *)
(* names of its payload and how often each name has been prompted for     *)
NoPrompts == [Unique |-> 0, Shown |-> [n \in Names |-> 0]]

(* a workflow handler slot that is not serving a request *)
IdleW == [pc |-> "idle", user |-> NoUser, sub |-> NoSub, item |-> "-", value |-> 0]

(* no method has been called directly yet; n alternates with every call  *)
NoCall == [n |-> 0, op |-> "-", user |-> NoUser, name |-> "-", id |-> 0,
           ok |-> FALSE, ref |-> NoSub]
NoFirst == [n \in Names |-> 0]

(* a call is made: its arguments and result are recorded *)
Called(op, userID, name, id, ok, ref) ==
    call' = [n |-> 1 - call.n, op |-> op, user |-> userID, name |-> name,
             id |-> id, ok |-> ok, ref |-> ref]

(* ----------------------------- handlers -------------------------------- *)
Idle == [pc |-> "idle", user |-> NoUser, target |-> NoUser, ac |-> NoConv,
         id |-> 0, busySelf |-> FALSE, busyOther |-> FALSE, out |-> "-"]

(* failed: the rows of the current round whose close returned an error *)
IdleTc == [pc |-> "idle", queue |-> <<>>, failed |-> {}]

NoQuery == [op |-> "-"]

(* the handler returns after sending the response out *)
Retire(h, out) ==
    IF h \in Calls THEN [Idle EXCEPT !.pc = "done", !.out = out] ELSE Idle

(* the reason given after a failed TryRegister *)
CheckReasonOfCreator(h) ==
    IF HasActiveConversation(conversations, heap, hs[h].target, now)
    THEN "you-busy" ELSE "creator-busy"

CheckReason(h) ==
    IF HasActiveConversation(conversations, heap, hs[h].user, now)
    THEN "you-busy" ELSE "creator-busy"

Init ==
    /\ now = 0
    /\ heap = [r \in Refs |-> NoObj]
    /\ conversations = [u \in Users |-> NoConv]
    /\ db = <<>>
    /\ hs = [h \in Slots |-> Idle]
    /\ tc = IdleTc
    /\ restarts = 0
    /\ reqs = 0
    /\ submissions = [u \in Submitters |-> NoSub]
    /\ pending = [r \in SubRefs |-> NilSub]
    /\ ws = [h \in Handlers |-> IdleW]
    /\ ui = [u \in Submitters |-> {}]
    /\ prompted = [r \in SubRefs |-> NoPrompts]
    /\ call = NoCall
    /\ firstID = [r \in SubRefs |-> NoFirst]
    /\ notified = {}
    /\ query = NoQuery

(* handler slot h takes a new request *)
Accept(h) ==
    /\ hs[h].pc = "idle"
    /\ IF h \in Handlers
       THEN /\ \A g \in Handlers : g < h => hs[g].pc # "idle"
            /\ reqs < MaxRequests
            /\ reqs' = reqs + 1
       ELSE UNCHANGED reqs

(* rows a handler in flight is still going to insert *)
PendingInserts == Cardinality({h \in Slots : hs[h].pc = "c_create"})

(* Bot.initiateTradeContact up to and including TryRegister *)
ContactTry(h, userID, creatorID) ==
    /\ Accept(h)
    /\ userID # creatorID
    /\ HasFreeRef(heap)
    /\ Len(db) + PendingInserts < MaxConvs
    /\ IF TryRegisterOK(conversations, heap, userID, creatorID, now)
       THEN LET r == FreeRef(heap)
                hp == [heap EXCEPT ![r] = ActiveConversation(0, userID, creatorID, now)]
                cv == Register(conversations, r, userID, creatorID)
                nh == [hs EXCEPT ![h] = [Idle EXCEPT !.pc = "c_create", !.user = userID,
                                                     !.target = creatorID, !.ac = r]]
            IN /\ conversations' = cv
               /\ hs' = nh
               /\ heap' = Collect(hp, cv, nh)
       ELSE /\ hs' = [hs EXCEPT ![h] =
                        [Idle EXCEPT !.pc = "c_check", !.user = userID, !.target = creatorID,
                                     !.busySelf = Busy(conversations, heap, userID, now),
                                     !.busyOther = Busy(conversations, heap, creatorID, now)]]
            /\ UNCHANGED <<heap, conversations, query>>
    /\ UNCHANGED <<now, db, tc, restarts, notified, subvars, query>>

(* the follow-up lookup after a failed TryRegister *)
ContactCheck(h) ==
    /\ hs[h].pc = "c_check"
    /\ hs' = [hs EXCEPT ![h] = Retire(h, CheckReason(h))]
    /\ UNCHANGED <<now, heap, conversations, db, tc, restarts, reqs, notified, subvars, query>>

(* db.CreateTradeConversation succeeds *)
ContactCreate(h) ==
    /\ hs[h].pc = "c_create"
    /\ db' = Append(db, TradeConversation(hs[h].user, hs[h].target, now))
    /\ hs' = [hs EXCEPT ![h].pc = "c_setid", ![h].id = Len(db) + 1]
    /\ UNCHANGED <<now, heap, conversations, tc, restarts, reqs, notified, subvars, query>>

(* ac.ConversationID = created.ID *)
ContactSetID(h) ==
    /\ hs[h].pc = "c_setid"
    /\ LET hp == [heap EXCEPT ![hs[h].ac].ConversationID = hs[h].id]
           nh == [hs EXCEPT ![h] = Retire(h, "started")]
       IN /\ hs' = nh
          /\ heap' = Collect(hp, conversations, nh)
    /\ UNCHANGED <<now, conversations, db, tc, restarts, reqs, notified, subvars, query>>

(* db.CreateTradeConversation fails: the in-memory registration is rolled back *)
ContactRollback(h) ==
    /\ hs[h].pc = "c_create"
    /\ LET ac == heap[hs[h].ac]
           cv == Remove(conversations, heap, ac.ConversationID,
                        ac.InitiatorUserID, ac.CreatorUserID)
           nh == [hs EXCEPT ![h] = Retire(h, "failed")]
       IN /\ conversations' = cv
          /\ hs' = nh
          /\ heap' = Collect(heap, cv, nh)
    /\ UNCHANGED <<now, db, tc, restarts, reqs, notified, subvars, query>>

(* Bot.handleTradeEnd *)
EndGet(h, userID) ==
    /\ Accept(h)
    /\ GetByUser(conversations, heap, userID, now) # NoConv
    /\ hs' = [hs EXCEPT ![h] = [Idle EXCEPT !.pc = "e_close", !.user = userID,
                                            !.ac = GetByUser(conversations, heap, userID, now)]]
    /\ UNCHANGED <<now, heap, conversations, db, tc, restarts, notified, subvars, query>>

EndClose(h, ok) ==
    /\ hs[h].pc = "e_close"
    /\ db' = IF ok THEN CloseTradeConversation(db, heap[hs[h].ac].ConversationID) ELSE db
    /\ hs' = [hs EXCEPT ![h].pc = "e_remove"]
    /\ UNCHANGED <<now, heap, conversations, tc, restarts, reqs, notified, subvars, query>>

EndRemove(h) ==
    /\ hs[h].pc = "e_remove"
    /\ LET ac == heap[hs[h].ac]
           cv == Remove(conversations, heap, ac.ConversationID,
                        ac.InitiatorUserID, ac.CreatorUserID)
           nh == [hs EXCEPT ![h] = Idle]
       IN /\ conversations' = cv
          /\ hs' = nh
          /\ heap' = Collect(heap, cv, nh)
    /\ UNCHANGED <<now, db, tc, restarts, reqs, notified, subvars, query>>

(* Bot.messageCreate *)
RelayGet(h, userID) ==
    /\ Accept(h)
    /\ GetByUser(conversations, heap, userID, now) # NoConv
    /\ hs' = [hs EXCEPT ![h] = [Idle EXCEPT !.pc = "r_touch", !.user = userID,
                                            !.ac = GetByUser(conversations, heap, userID, now)]]
    /\ UNCHANGED <<now, heap, conversations, db, tc, restarts, notified, subvars, query>>

(* the message was delivered (a handler whose delivery fails returns      *)
(* without having changed anything)                                       *)
RelayTouch(h) ==
    /\ hs[h].pc = "r_touch"
    /\ heap' = Touch(conversations, heap, hs[h].user, now)
    /\ hs' = [hs EXCEPT ![h].pc = "r_db"]
    /\ UNCHANGED <<now, conversations, db, tc, restarts, reqs, notified, subvars, query>>

RelayDb(h, ok) ==
    /\ hs[h].pc = "r_db"
    /\ db' = IF ok THEN UpdateConversationActivity(db, heap[hs[h].ac].ConversationID, now)
             ELSE db
    /\ LET nh == [hs EXCEPT ![h] = Idle]
       IN /\ hs' = nh
          /\ heap' = Collect(heap, conversations, nh)
    /\ UNCHANGED <<now, conversations, tc, restarts, reqs, notified, subvars, query>>

(* one round of TradeConversationManager.cleanupLoop *)
Cleanup ==
    /\ CleanupSweep(conversations, heap, now) # conversations
    /\ conversations' = CleanupSweep(conversations, heap, now)
    /\ heap' = Collect(heap, conversations', hs)
    /\ UNCHANGED <<now, db, hs, tc, restarts, reqs, notified, subvars, query>>

(* Bot.conversationTimeoutChecker: the query, then for each row the       *)
(* close, and the removal followed by the notice to both participants    *)
TcScan ==
    /\ tc.pc = "idle"
    /\ GetStaleConversations(db, now) # <<>>
    /\ tc' = [pc |-> "close", queue |-> GetStaleConversations(db, now),
              failed |-> {}]
    /\ UNCHANGED <<now, heap, conversations, db, hs, restarts, reqs, notified, subvars, query>>

(* the same step with "break" in the place of "continue" *)
TcCloseAbortsRound(ok) ==
    /\ tc.pc = "close"
    /\ IF ok
       THEN /\ db' = CloseTradeConversation(db, Head(tc.queue).ID)
            /\ tc' = [tc EXCEPT !.pc = "remove"]
       ELSE /\ tc' = IdleTc
            /\ UNCHANGED db
    /\ UNCHANGED <<now, heap, conversations, hs, restarts, reqs, notified, subvars, query>>

TcClose(ok) ==
    /\ tc.pc = "close"
    /\ IF ok
       THEN /\ db' = CloseTradeConversation(db, Head(tc.queue).ID)
            /\ tc' = [tc EXCEPT !.pc = "remove"]
       ELSE /\ tc' = IF Tail(tc.queue) = <<>> THEN IdleTc
                     ELSE [tc EXCEPT !.queue = Tail(tc.queue),
                                     !.failed = @ \cup {Head(tc.queue).ID}]
            /\ UNCHANGED db
    /\ UNCHANGED <<now, heap, conversations, hs, restarts, reqs, notified, subvars, query>>

(* the same step without the call of Remove *)
TcRemoveLeavesRegistry ==
    /\ tc.pc = "remove"
    /\ tc' = IF Tail(tc.queue) = <<>> THEN IdleTc
             ELSE [tc EXCEPT !.pc = "close", !.queue = Tail(tc.queue)]
    /\ notified' = notified \cup {Head(tc.queue).ID}
    /\ UNCHANGED <<now, heap, conversations, db, hs, restarts, reqs, subvars, query>>

TcRemove ==
    /\ tc.pc = "remove"
    /\ LET conv == Head(tc.queue)
       IN conversations' = Remove(conversations, heap, conv.ID,
                                  conv.InitiatorUserID, conv.CreatorUserID)
    /\ heap' = Collect(heap, conversations', hs)
    /\ tc' = IF Tail(tc.queue) = <<>> THEN IdleTc
             ELSE [tc EXCEPT !.pc = "close", !.queue = Tail(tc.queue)]
    /\ notified' = notified \cup {Head(tc.queue).ID}
    /\ UNCHANGED <<now, db, hs, restarts, reqs, subvars, query>>

(* Bot.recoverActiveConversations on a fresh process *)
RECURSIVE RecoverAll(_, _, _, _)
RecoverAll(rows, convs, hp, t) ==
    IF rows = <<>> THEN [convs |-> convs, hp |-> hp]
    ELSE LET conv == Head(rows)
             r == FreeRef(hp)
         IN RecoverAll(Tail(rows),
                       Register(convs, r, conv.InitiatorUserID, conv.CreatorUserID),
                       [hp EXCEPT ![r] = ActiveConversation(conv.ID, conv.InitiatorUserID,
                                                            conv.CreatorUserID, t)],
                       t)

Restart ==
    /\ restarts < MaxRestarts
    /\ restarts' = restarts + 1
    /\ reqs < MaxRequests
    /\ reqs' = reqs + 1
    /\ hs' = [h \in Slots |-> Idle]
    /\ tc' = IdleTc
    /\ LET rec == RecoverAll(GetAllActiveConversations(db),
                             [u \in Users |-> NoConv], [r \in Refs |-> NoObj], now)
       IN /\ conversations' = rec.convs
          /\ heap' = Collect(rec.hp, rec.convs, hs')
    /\ submissions' = [u \in Submitters |-> NoSub]
    /\ pending' = [r \in SubRefs |-> NilSub]
    /\ ws' = [h \in Handlers |-> IdleW]
    /\ UNCHANGED <<now, db, ui, prompted, call, firstID, notified, query>>

Tick ==
    /\ now < MaxTime
    /\ now' = now + 1
    /\ UNCHANGED <<heap, conversations, db, hs, tc, restarts, reqs, notified, subvars, query>>

Next ==
    \/ \E h \in Handlers, u \in Users, c \in OrderOwners : ContactTry(h, u, c)
    \/ \E h \in Handlers : ContactCheck(h)
    \/ \E h \in Handlers : ContactCreate(h)
    \/ \E h \in Handlers : ContactSetID(h)
    \/ \E h \in Handlers : ContactRollback(h)
    \/ \E h \in Handlers, u \in Users : EndGet(h, u)
    \/ \E h \in Handlers, ok \in BOOLEAN : EndClose(h, ok)
    \/ \E h \in Handlers : EndRemove(h)
    \/ \E h \in Handlers, u \in Users : RelayGet(h, u)
    \/ \E h \in Handlers : RelayTouch(h)
    \/ \E h \in Handlers, ok \in BOOLEAN : RelayDb(h, ok)
    \/ Cleanup
    \/ TcScan
    \/ \E ok \in BOOLEAN : TcClose(ok)
    \/ TcRemove
    \/ Restart
    \/ Tick

Spec == Init /\ [][Next]_vars

(* --------------------------------------------------------------------- *)
(* The sweeps at work: requests are served one after another by one      *)
(* handler while the cleanup loop and the timeout checker run; no        *)
(* participant ends a conversation, and the process restarts only        *)
(* between two rounds of the timeout checker.                            *)
(* Every goroutine that can take a step eventually takes it, the two     *)
(* loops keep running, and a close that is retried round after round     *)
(* eventually succeeds.                                                  *)
(* --------------------------------------------------------------------- *)
Solo == 1

NextIdle ==
    \/ \E u \in Users, c \in OrderOwners : ContactTry(Solo, u, c)
    \/ ContactCheck(Solo)
    \/ ContactCreate(Solo)
    \/ ContactSetID(Solo)
    \/ ContactRollback(Solo)
    \/ \E u \in Users : RelayGet(Solo, u)
    \/ RelayTouch(Solo)
    \/ \E ok \in BOOLEAN : RelayDb(Solo, ok)
    \/ Cleanup
    \/ TcScan
    \/ \E ok \in BOOLEAN : TcClose(ok)
    \/ TcRemove
    \/ (tc.pc = "idle" /\ Restart)
    \/ Tick

FairIdle ==
    /\ WF_vars(ContactCheck(Solo))
    /\ WF_vars(ContactCreate(Solo) \/ ContactRollback(Solo))
    /\ WF_vars(ContactSetID(Solo))
    /\ WF_vars(RelayTouch(Solo))
    /\ WF_vars(\E ok \in BOOLEAN : RelayDb(Solo, ok))
    /\ WF_vars(Cleanup)
    /\ WF_vars(TcScan)
    /\ SF_vars(TcClose(TRUE))
    /\ WF_vars(TcRemove)

SpecIdle == Init /\ [][NextIdle]_vars /\ FairIdle

(* --------------------------------------------------------------------- *)
(* The submission workflow.  Each action is one handler step: a call of   *)
(* a SubmissionManager method (one critical section), preceded by the     *)
(* calls to the item and port registry whose results are its inputs.  A   *)
(* port or item response is one the user gives to a prompt on display.    *)
(* --------------------------------------------------------------------- *)
(* a request is served by the first slot that is free (which goroutine   *)
(* serves it makes no difference)                                        *)
AcceptW(h) ==
    /\ ws[h].pc = "idle"
    /\ \A g \in Handlers : g < h => ws[g].pc # "idle"
    /\ reqs < MaxRequests
    /\ reqs' = reqs + 1

(* the handler returns; objects nobody refers to any more are dropped *)
Return(h, subs, hp) ==
    /\ ws' = [ws EXCEPT ![h] = IdleW]
    /\ submissions' = subs
    /\ pending' = CollectSubs(hp, subs, ws')

(* Bot.handleSubmit from SubmissionManager.Create on *)
HandleSubmit(h, userID, items) ==
    /\ AcceptW(h)
    /\ HasFreeSub(pending)
    /\ LET r == FreeSub(pending)
       IN /\ submissions' = Create(submissions, r, userID)
          /\ ws' = [ws EXCEPT ![h] = [IdleW EXCEPT !.pc = "port", !.user = userID, !.sub = r]]
          /\ pending' = CollectSubs([pending EXCEPT ![r] = PendingSubmission(userID, items, now)],
                                    submissions', ws')
          /\ prompted' = [prompted EXCEPT ![r] = [NoPrompts EXCEPT !.Unique = Len(GetUniqueOCRItems(items))]]
    /\ UNCHANGED <<now, ui, convvars, call, firstID, query>>

(* Bot.processPortMatching *)
ProcessPortMatching(h, m, portID) ==
    /\ ws[h].pc = "port"
    /\ LET sub == pending[ws[h].sub]
       IN CASE m = "error" ->
                 /\ Return(h, RemoveSubmission(submissions, sub.UserID), pending)
                 /\ UNCHANGED ui
            [] m = "exact" ->
                 /\ pending' = ConfirmPort(submissions, pending, sub.UserID, portID)
                 /\ ws' = [ws EXCEPT ![h].pc = "match"]
                 /\ UNCHANGED <<submissions, ui, query>>
            [] m = "ask" ->
                 /\ ui' = [ui EXCEPT ![ws[h].user] = @ \cup {"port"}]
                 /\ Return(h, submissions, pending)
    /\ UNCHANGED <<now, reqs, prompted, convvars, call, firstID, query>>

(* Bot.handlePortSelect up to ConfirmPort *)
HandlePortSelect(h, userID, portID) ==
    /\ AcceptW(h)
    /\ "port" \in ui[userID]
    /\ ui' = [ui EXCEPT ![userID] = @ \ {"port"}]
    /\ IF ConfirmPortOK(submissions, userID)
       THEN /\ pending' = ConfirmPort(submissions, pending, userID, portID)
            /\ ws' = [ws EXCEPT ![h] = [IdleW EXCEPT !.pc = "ps_get", !.user = userID]]
       ELSE UNCHANGED <<pending, ws, query>>
    /\ UNCHANGED <<now, submissions, prompted, convvars, call, firstID, query>>

(* Bot.handlePortSelect: Get after ConfirmPort *)
PortSelectGet(h) ==
    /\ ws[h].pc = "ps_get"
    /\ LET r == Get(submissions, pending, ws[h].user, now)
       IN IF r = NoSub
          THEN Return(h, submissions, pending)
          ELSE /\ ws' = [ws EXCEPT ![h].pc = "match", ![h].sub = r]
               /\ UNCHANGED <<submissions, pending, query>>
    /\ UNCHANGED <<now, reqs, ui, prompted, convvars, call, firstID, query>>

(* Bot.handleCreatePortModal up to Get *)
HandleCreatePortModal(h, userID) ==
    /\ AcceptW(h)
    /\ "port" \in ui[userID]
    /\ ui' = [ui EXCEPT ![userID] = @ \ {"port"}]
    /\ LET r == Get(submissions, pending, userID, now)
       IN IF r = NoSub
          THEN UNCHANGED ws
          ELSE ws' = [ws EXCEPT ![h] = [IdleW EXCEPT !.pc = "cp_confirm", !.user = userID, !.sub = r]]
    /\ UNCHANGED <<now, submissions, pending, prompted, convvars, call, firstID, query>>

(* Bot.handleCreatePortModal: db.CreatePort, then ConfirmPort *)
CreatePortConfirm(h, ok, portID) ==
    /\ ws[h].pc = "cp_confirm"
    /\ IF ok
       THEN /\ pending' = ConfirmPort(submissions, pending, ws[h].user, portID)
            /\ ws' = [ws EXCEPT ![h].pc = "match"]
            /\ UNCHANGED submissions
       ELSE Return(h, submissions, pending)
    /\ UNCHANGED <<now, reqs, ui, prompted, convvars, call, firstID, query>>

(* Bot.processItemMatching: GetUnconfirmedItems *)
MatchNext(h) ==
    /\ ws[h].pc = "match"
    /\ LET unconfirmedItems == GetUnconfirmedItems(pending[ws[h].sub])
       IN IF unconfirmedItems = <<>>
          THEN ws' = [ws EXCEPT ![h].pc = "commit"]
          ELSE ws' = [ws EXCEPT ![h].pc = "found", ![h].item = Head(unconfirmedItems)]
    /\ UNCHANGED <<now, reqs, submissions, pending, ui, prompted, convvars, call, firstID, query>>

(* Bot.processItemMatching: what follows db.FindItemMatches, whose result *)
(* is an error, a top match of exact or high confidence, or anything else *)
MatchFound(h, m, itemID) ==
    /\ ws[h].pc = "found"
    /\ LET sub == pending[ws[h].sub]
           nextItem == ws[h].item
       IN CASE m = "error" ->
                 /\ Return(h, RemoveSubmission(submissions, sub.UserID), pending)
                 /\ UNCHANGED <<ui, prompted, query>>
            [] m \in {"exact", "high"} ->
                 /\ pending' = AddItemMapping(submissions, pending, sub.UserID, nextItem, itemID)
                 /\ ws' = [ws EXCEPT ![h].pc = "complete"]
                 /\ UNCHANGED <<submissions, ui, prompted, query>>
            [] m = "ask" ->
                 /\ ui' = [ui EXCEPT ![ws[h].user] = @ \cup {nextItem}]
                 /\ prompted' = [prompted EXCEPT ![ws[h].sub].Shown[nextItem] = @ + 1]
                 /\ Return(h, submissions, pending)
    /\ UNCHANGED <<now, reqs, convvars, call, firstID, query>>

(* sub.IsComplete() after an AddItemMapping *)
CheckComplete(h) ==
    /\ ws[h].pc = "complete"
    /\ ws' = [ws EXCEPT ![h].pc = IF IsComplete(pending[ws[h].sub]) THEN "commit" ELSE "match"]
    /\ UNCHANGED <<now, reqs, submissions, pending, ui, prompted, convvars, call, firstID, query>>

(* Bot.handleItemConfirm up to Get; value is the item id selected, or 0   *)
(* for "new"                                                              *)
HandleItemConfirm(h, userID, itemName, value) ==
    /\ AcceptW(h)
    /\ itemName \in ui[userID]
    /\ ui' = [ui EXCEPT ![userID] = @ \ {itemName}]
    /\ LET r == Get(submissions, pending, userID, now)
       IN IF r = NoSub
          THEN UNCHANGED ws
          ELSE ws' = [ws EXCEPT ![h] = [pc |-> "ic_add", user |-> userID, sub |-> r,
                                        item |-> itemName, value |-> value]]
    /\ UNCHANGED <<now, submissions, pending, prompted, convvars, call, firstID, query>>

(* Bot.handleItemConfirm: db.CreateItem for "new", then AddItemMapping *)
ItemConfirmAdd(h, ok, newID) ==
    /\ ws[h].pc = "ic_add"
    /\ IF ws[h].value = 0 /\ ~ok
       THEN Return(h, submissions, pending)
       ELSE /\ pending' = AddItemMapping(submissions, pending, ws[h].user, ws[h].item,
                                         IF ws[h].value = 0 THEN newID ELSE ws[h].value)
            /\ ws' = [ws EXCEPT ![h].pc = "complete"]
            /\ UNCHANGED submissions
    /\ UNCHANGED <<now, reqs, ui, prompted, convvars, call, firstID, query>>

(* Bot.commitSubmission: GetMarketOrders *)
CommitSubmission(h) ==
    /\ ws[h].pc = "commit"
    /\ IF GetMarketOrders(submissions, pending, pending[ws[h].sub].UserID) = <<>>
       THEN Return(h, submissions, pending)
       ELSE /\ ws' = [ws EXCEPT ![h].pc = "store"]
            /\ UNCHANGED <<submissions, pending, query>>
    /\ UNCHANGED <<now, reqs, ui, prompted, convvars, call, firstID, query>>

(* Bot.commitSubmission: db.ReplacePortOrders, then Remove *)
(* No behaviour reaches position "store": GetMarketOrders never returns  *)
(* orders, so this step is not a disjunct of NextSub.                     *)
CommitStoreRemovesAnyway(h, ok) ==
    /\ ws[h].pc = "store"
    /\ Return(h, RemoveSubmission(submissions, pending[ws[h].sub].UserID), pending)
    /\ Called("ReplacePortOrders", ws[h].user, "-", 0, ok, ws[h].sub)
    /\ UNCHANGED <<now, reqs, ui, prompted, convvars, firstID, query>>

CommitStore(h, ok) ==
    /\ ws[h].pc = "store"
    /\ IF ok
       THEN Return(h, RemoveSubmission(submissions, pending[ws[h].sub].UserID), pending)
       ELSE Return(h, submissions, pending)
    /\ Called("ReplacePortOrders", ws[h].user, "-", 0, ok, ws[h].sub)
    /\ UNCHANGED <<now, reqs, ui, prompted, convvars, firstID, query>>

(* one round of SubmissionManager.cleanupLoop *)
SubmissionCleanup ==
    /\ cleanup(submissions, pending, now) # submissions
    /\ submissions' = cleanup(submissions, pending, now)
    /\ pending' = CollectSubs(pending, submissions', ws)
    /\ UNCHANGED <<now, reqs, ws, ui, prompted, convvars, call, firstID, query>>

(* One handler reads sub.ItemMappings outside the lock while another is   *)
(* about to write the same map in AddItemMapping: the Go runtime may stop *)
(* the process with "concurrent map read and map write" (otherwise the    *)
(* read sees the map before or after the write, as the steps above do).   *)
(* Nothing runs in a process that has stopped.                            *)
FatalMapRace(g, h) ==
    /\ g # h
    /\ ws[g].pc \in {"match", "complete"}
    /\ ws[h].pc \in {"found", "ic_add"}
    /\ submissions[ws[h].user] = ws[g].sub
    /\ ws' = [w \in Handlers |-> [IdleW EXCEPT !.pc = "stopped"]]
    /\ submissions' = [u \in Submitters |-> NoSub]
    /\ pending' = [r \in SubRefs |-> NilSub]
    /\ UNCHANGED <<now, reqs, ui, prompted, convvars, call, firstID, query>>

NextSub ==
    \/ \E h \in Handlers, u \in Submitters, p \in Payloads : HandleSubmit(h, u, p)
    \/ \E h \in Handlers, m \in {"error", "exact", "ask"}, id \in PortIDs :
          ProcessPortMatching(h, m, id)
    \/ \E h \in Handlers, u \in Submitters, id \in PortIDs : HandlePortSelect(h, u, id)
    \/ \E h \in Handlers : PortSelectGet(h)
    \/ \E h \in Handlers, u \in Submitters : HandleCreatePortModal(h, u)
    \/ \E h \in Handlers, ok \in BOOLEAN, id \in PortIDs : CreatePortConfirm(h, ok, id)
    \/ \E h \in Handlers : MatchNext(h)
    \/ \E h \in Handlers, m \in {"error", "exact", "high", "ask"}, id \in ItemIDs :
          MatchFound(h, m, id)
    \/ \E h \in Handlers : CheckComplete(h)
    \/ \E h \in Handlers, u \in Submitters, n \in Names, v \in {0} \cup ItemIDs :
          HandleItemConfirm(h, u, n, v)
    \/ \E h \in Handlers, ok \in BOOLEAN, id \in ItemIDs : ItemConfirmAdd(h, ok, id)
    \/ \E h \in Handlers : CommitSubmission(h)
    \/ SubmissionCleanup
    \/ \E g \in Handlers, h \in Handlers : FatalMapRace(g, h)
    \/ Tick

SpecSub == Init /\ [][NextSub]_vars

(* --------------------------------------------------------------------- *)
(* The submission store on its own: the methods of SubmissionManager     *)
(* called one at a time, in any order and with any arguments, the clock  *)
(* and the cleanup loop running in between.  call records the latest     *)
(* call, its arguments and its result.                                   *)
(* --------------------------------------------------------------------- *)
NumPorts == 2
PortChoices == 1..NumPorts

(* SubmissionManager.GetItemMapping: the id found, 0 with ok = false *)
GetItemMappingOK(subs, hp, userID, ocrName) ==
    /\ subs[userID] # NoSub
    /\ ocrName \in DOMAIN hp[subs[userID]].ItemMappings

GetItemMapping(subs, hp, userID, ocrName) ==
    IF GetItemMappingOK(subs, hp, userID, ocrName)
    THEN hp[subs[userID]].ItemMappings[ocrName] ELSE 0

(* the first-call record is kept for the objects that still exist *)
KeepFirst(hp, fresh) ==
    [q \in SubRefs |-> IF hp[q] = NilSub \/ q = fresh THEN NoFirst ELSE firstID[q]]

StoreCreate(userID, items) ==
    /\ HasFreeSub(pending)
    /\ LET r == FreeSub(pending)
       IN /\ submissions' = Create(submissions, r, userID)
          /\ pending' = CollectSubs([pending EXCEPT ![r] = PendingSubmission(userID, items, now)],
                                    submissions', ws)
          /\ firstID' = KeepFirst(pending', r)
          /\ Called("Create", userID, "-", 0, TRUE, r)
    /\ UNCHANGED <<now, reqs, ws, ui, prompted, convvars, query>>

StoreGet(userID) ==
    /\ LET r == Get(submissions, pending, userID, now)
       IN Called("Get", userID, "-", 0, r # NoSub, r)
    /\ UNCHANGED <<now, reqs, submissions, pending, ws, ui, prompted, firstID, convvars, query>>

StoreRemove(userID) ==
    /\ submissions' = RemoveSubmission(submissions, userID)
    /\ pending' = CollectSubs(pending, submissions', ws)
    /\ firstID' = KeepFirst(pending', NoSub)
    /\ Called("Remove", userID, "-", 0, TRUE, NoSub)
    /\ UNCHANGED <<now, reqs, ws, ui, prompted, convvars, query>>

StoreConfirmPort(userID, portID) ==
    /\ pending' = ConfirmPort(submissions, pending, userID, portID)
    /\ Called("ConfirmPort", userID, "-", portID, ConfirmPortOK(submissions, userID),
              submissions[userID])
    /\ UNCHANGED <<now, reqs, submissions, ws, ui, prompted, firstID, convvars, query>>

StoreAddItemMapping(userID, ocrName, itemID) ==
    /\ pending' = AddItemMapping(submissions, pending, userID, ocrName, itemID)
    /\ Called("AddItemMapping", userID, ocrName, itemID,
              AddItemMappingOK(submissions, pending, userID, ocrName), submissions[userID])
    /\ firstID' = IF submissions[userID] # NoSub /\ firstID[submissions[userID]][ocrName] = 0
                  THEN [firstID EXCEPT ![submissions[userID]][ocrName] = itemID]
                  ELSE firstID
    /\ UNCHANGED <<now, reqs, submissions, ws, ui, prompted, convvars, query>>

StoreGetItemMapping(userID, ocrName) ==
    /\ Called("GetItemMapping", userID, ocrName,
              GetItemMapping(submissions, pending, userID, ocrName),
              GetItemMappingOK(submissions, pending, userID, ocrName), submissions[userID])
    /\ UNCHANGED <<now, reqs, submissions, pending, ws, ui, prompted, firstID, convvars, query>>

StoreMarkItemsConfirmed(userID) ==
    /\ pending' = MarkItemsConfirmed(submissions, pending, userID)
    /\ Called("MarkItemsConfirmed", userID, "-", 0, submissions[userID] # NoSub,
              submissions[userID])
    /\ UNCHANGED <<now, reqs, submissions, ws, ui, prompted, firstID, convvars, query>>

StoreIsReady(userID) ==
    /\ Called("IsReady", userID, "-", 0, IsReady(submissions, pending, userID),
              submissions[userID])
    /\ UNCHANGED <<now, reqs, submissions, pending, ws, ui, prompted, firstID, convvars, query>>

(* ok tells whether orders were returned rather than nil *)
StoreGetMarketOrders(userID) ==
    /\ Called("GetMarketOrders", userID, "-", 0,
              GetMarketOrders(submissions, pending, userID) # <<>>, submissions[userID])
    /\ UNCHANGED <<now, reqs, submissions, pending, ws, ui, prompted, firstID, convvars, query>>

NextStore ==
    \/ \E u \in Submitters, p \in Payloads : StoreCreate(u, p)
    \/ \E u \in Submitters : StoreGet(u)
    \/ \E u \in Submitters : StoreRemove(u)
    \/ \E u \in Submitters, p \in PortChoices : StoreConfirmPort(u, p)
    \/ \E u \in Submitters, n \in Names, id \in ItemIDs : StoreAddItemMapping(u, n, id)
    \/ \E u \in Submitters, n \in Names : StoreGetItemMapping(u, n)
    \/ \E u \in Submitters : StoreMarkItemsConfirmed(u)
    \/ \E u \in Submitters : StoreIsReady(u)
    \/ \E u \in Submitters : StoreGetMarketOrders(u)
    \/ SubmissionCleanup
    \/ Tick

SpecStore == Init /\ [][NextStore]_vars

(* --------------------------------------------------------------------- *)
(* commitSubmission on its own.  The store holds one submission in any   *)
(* state its methods can bring it into (Create, then ConfirmPort,        *)
(* AddItemMapping and MarkItemsConfirmed in any number and order; no     *)
(* handler calls MarkItemsConfirmed), and commitSubmission is run on it. *)
(* --------------------------------------------------------------------- *)
Mappings == UNION { [S -> ItemIDs] : S \in SUBSET Names }

StoredSubmissions ==
    { [PendingSubmission(u, p, 0) EXCEPT !.PortConfirmed = pc,
                                         !.PortID = IF pc THEN port ELSE NoPort,
                                         !.ItemMappings = m,
                                         !.ItemsConfirmed = ic] :
        u \in Submitters, p \in Payloads, pc \in BOOLEAN, port \in PortIDs,
        m \in Mappings, ic \in BOOLEAN }

InitCommit ==
    /\ now = 0
    /\ heap = [r \in Refs |-> NoObj]
    /\ conversations = [u \in Users |-> NoConv]
    /\ db = <<>>
    /\ hs = [h \in Slots |-> Idle]
    /\ tc = IdleTc
    /\ restarts = 0
    /\ reqs = 0
    /\ \E sub \in StoredSubmissions :
          /\ submissions = [u \in Submitters |-> IF u = sub.UserID THEN 1 ELSE NoSub]
          /\ pending = [r \in SubRefs |-> IF r = 1 THEN sub ELSE NilSub]
          /\ firstID = [r \in SubRefs |->
                          IF r = 1 THEN [n \in Names |-> IF n \in DOMAIN sub.ItemMappings
                                                         THEN sub.ItemMappings[n] ELSE 0]
                          ELSE NoFirst]
    /\ ws = [h \in Handlers |-> IdleW]
    /\ ui = [u \in Submitters |-> {}]
    /\ prompted = [r \in SubRefs |-> NoPrompts]
    /\ call = NoCall
    /\ notified = {}
    /\ query = NoQuery

(* commitSubmission(sub) is entered with the submission the store holds *)
BeginCommit(h, userID) ==
    /\ AcceptW(h)
    /\ submissions[userID] # NoSub
    /\ ws' = [ws EXCEPT ![h] = [IdleW EXCEPT !.pc = "commit", !.user = userID,
                                            !.sub = submissions[userID]]]
    /\ UNCHANGED <<now, submissions, pending, ui, prompted, call, firstID, convvars, query>>

NextCommit ==
    \/ \E h \in Handlers, u \in Submitters : BeginCommit(h, u)
    \/ \E h \in Handlers : CommitSubmission(h)
    \/ \E h \in Handlers, ok \in BOOLEAN : CommitStore(h, ok)
    \/ SubmissionCleanup
    \/ Tick

SpecCommit == InitCommit /\ [][NextCommit]_vars

(* --------------------------------------------------------------------- *)
(* Bot.handleSubmit from the OCR analysis on: what AnalyzeScreenshot     *)
(* parsed from the screenshot is validated before anything is stored.    *)
(* --------------------------------------------------------------------- *)
MarketData(port, orderType, items) ==
    [Port |-> port, OrderType |-> orderType, Items |-> items]

(* what the OCR can read out of a screenshot, well-formed or not *)
OCROutputs ==
    { MarketData(p, t, i) :
        p \in {"Port Royale", "", "unknown"},
        t \in {"buy", "sell", "unknown"},
        i \in {<<>>, <<MarketItem("Wood", 10, 5)>>} }

OrderTypes == {"buy", "sell"}

(* the validation at the end of AnalyzeScreenshot: the error, "" if none *)
AnalyzeScreenshotErrorIgnoringItems(marketData) ==
    IF marketData.Port = "" \/ marketData.Port = "unknown"
    THEN "could not determine port from screenshot"
    ELSE IF marketData.OrderType # "buy" /\ marketData.OrderType # "sell"
    THEN "could not determine order type (buy/sell) from screenshot"
    ELSE ""

AnalyzeScreenshotError(marketData) ==
    IF marketData.Port = "" \/ marketData.Port = "unknown"
    THEN "could not determine port from screenshot"
    ELSE IF marketData.OrderType # "buy" /\ marketData.OrderType # "sell"
    THEN "could not determine order type (buy/sell) from screenshot"
    ELSE IF Len(marketData.Items) = 0
    THEN "no items found in screenshot"
    ELSE ""

(* Bot.handleSubmit: AnalyzeScreenshot, the order type check, Create *)
HandleSubmitRequest(h, userID, orderType, marketData) ==
    /\ AcceptW(h)
    /\ LET err == AnalyzeScreenshotError(marketData)
       IN IF err # ""
          THEN /\ Called("handleSubmit", userID, err, 0, FALSE, NoSub)
               /\ UNCHANGED <<submissions, pending, ws, prompted, query>>
          ELSE IF marketData.OrderType # orderType
          THEN /\ Called("handleSubmit", userID, "Order type mismatch", 0, FALSE, NoSub)
               /\ UNCHANGED <<submissions, pending, ws, prompted, query>>
          ELSE /\ HasFreeSub(pending)
               /\ LET r == FreeSub(pending)
                      sub == [PendingSubmission(userID, marketData.Items, now)
                                 EXCEPT !.Port = marketData.Port, !.OrderType = orderType]
                  IN /\ submissions' = Create(submissions, r, userID)
                     /\ ws' = [ws EXCEPT ![h] = [IdleW EXCEPT !.pc = "port", !.user = userID,
                                                             !.sub = r]]
                     /\ pending' = CollectSubs([pending EXCEPT ![r] = sub], submissions', ws')
                     /\ prompted' = [prompted EXCEPT ![r] =
                            [NoPrompts EXCEPT !.Unique = Len(GetUniqueOCRItems(marketData.Items))]]
                     /\ Called("handleSubmit", userID, "-", 0, TRUE, r)
    /\ UNCHANGED <<now, ui, firstID, convvars, query>>

NextIntake ==
    \/ \E h \in Handlers, u \in Submitters, t \in OrderTypes, md \in OCROutputs :
          HandleSubmitRequest(h, u, t, md)
    \/ \E h \in Handlers, m \in {"error", "ask"}, id \in PortIDs : ProcessPortMatching(h, m, id)
    \/ SubmissionCleanup
    \/ Tick

SpecIntake == Init /\ [][NextIntake]_vars

(* --------------------------------------------------------------------- *)
(* The registry on its own: the methods of TradeConversationManager      *)
(* called one at a time, in any order and with any arguments, the clock  *)
(* running in between.  The record of the latest TryRegister call (its   *)
(* arguments, its result, the object it stored) is kept in slot Probe.   *)
(* The number of calls is not limited: reqs alternates between 0 and 1,  *)
(* so every call is a step.  A conversation's durable id is unique to    *)
(* it: the id of the object at reference r is r.                         *)
(* --------------------------------------------------------------------- *)
Probe == NumHandlers + 1

(* tcm.TryRegister(conv) for a new conversation between the two users *)
CallTryRegister(userID, creatorID) ==
    /\ userID # creatorID
    /\ reqs \in {0, 1}
    /\ reqs' = 1 - reqs
    /\ LET dropped == [hs EXCEPT ![Probe] = Idle]
           hp0 == Collect(heap, conversations, dropped)
       IN /\ HasFreeRef(hp0)
          /\ IF TryRegisterOK(conversations, heap, userID, creatorID, now)
             THEN LET r == FreeRef(hp0)
                      hp == [hp0 EXCEPT ![r] = ActiveConversation(0, userID, creatorID, now)]
                      cv == Register(conversations, r, userID, creatorID)
                      nh == [hs EXCEPT ![Probe] = [Idle EXCEPT !.pc = "c_create", !.user = userID,
                                                               !.target = creatorID, !.ac = r]]
                  IN /\ conversations' = cv
                     /\ hs' = nh
                     /\ heap' = Collect(hp, cv, nh)
             ELSE /\ hs' = [hs EXCEPT ![Probe] = [Idle EXCEPT !.pc = "c_check", !.user = userID,
                                                              !.target = creatorID]]
                  /\ heap' = hp0
                  /\ UNCHANGED conversations
    /\ UNCHANGED <<now, db, tc, restarts, notified, subvars, query>>

(* tcm.Register(conv) for a conversation read back from durable storage *)
CallRegister(userID, creatorID) ==
    /\ userID # creatorID
    /\ HasFreeRef(heap)
    /\ LET r == FreeRef(heap)
           hp == [heap EXCEPT ![r] = ActiveConversation(r, userID, creatorID, now)]
           cv == Register(conversations, r, userID, creatorID)
       IN /\ conversations' = cv
          /\ heap' = Collect(hp, cv, hs)
    /\ UNCHANGED <<now, db, hs, tc, restarts, reqs, notified, subvars, query>>

(* ac.ConversationID = created.ID on a stored conversation *)
CallSetID(r) ==
    /\ heap[r] # NoObj
    /\ heap[r].ConversationID = 0
    /\ heap' = [heap EXCEPT ![r].ConversationID = r]
    /\ UNCHANGED <<now, conversations, db, hs, tc, restarts, reqs, notified, subvars, query>>

(* tcm.Touch(userID) *)
CallTouch(userID) ==
    /\ Touch(conversations, heap, userID, now) # heap
    /\ heap' = Touch(conversations, heap, userID, now)
    /\ UNCHANGED <<now, conversations, db, hs, tc, restarts, reqs, notified, subvars, query>>

(* tcm.Remove(conv) for a conversation somebody still holds *)
CallRemove(r) ==
    /\ heap[r] # NoObj
    /\ LET cv == Remove(conversations, heap, heap[r].ConversationID,
                        heap[r].InitiatorUserID, heap[r].CreatorUserID)
       IN /\ cv # conversations
          /\ conversations' = cv
          /\ heap' = Collect(heap, cv, hs)
    /\ UNCHANGED <<now, db, hs, tc, restarts, reqs, notified, subvars, query>>

NextRegistry ==
    \/ \E u \in Users, c \in Users : CallTryRegister(u, c)
    \/ \E u \in Users, c \in Users : CallRegister(u, c)
    \/ \E r \in Refs : CallSetID(r)
    \/ \E u \in Users : CallTouch(u)
    \/ \E r \in Refs : CallRemove(r)
    \/ Cleanup
    \/ Tick

SpecRegistry == Init /\ [][NextRegistry]_vars

(* --------------------------------------------------------------------- *)
(* Concurrent TryRegister calls on an empty registry.  The calls of one  *)
(* race all run within one timeout period, so no entry times out while   *)
(* the race lasts.                                                       *)
(* --------------------------------------------------------------------- *)
RaceTick == now < Timeout /\ Tick

NextRace ==
    \/ \E h \in Calls, u \in Users, c \in Users : ContactTry(h, u, c)
    \/ RaceTick

SpecRace == Init /\ [][NextRace]_vars

Returned(h) == hs[h].pc \in {"c_create", "c_check"}
ReturnedTrue(h) == hs[h].pc = "c_create"
ReturnedFalse(h) == hs[h].pc = "c_check"
CallUsers(h) == {hs[h].user, hs[h].target}
Overlap(g, h) == g # h /\ Returned(g) /\ Returned(h) /\ CallUsers(g) \cap CallUsers(h) # {}
CallsOf(u) == {h \in Calls : Returned(h) /\ u \in CallUsers(h)}

NoOverlappingSuccesses ==
    \A g \in Calls, h \in Calls : Overlap(g, h) => ~(ReturnedTrue(g) /\ ReturnedTrue(h))

(* C1 as stated: no two calls sharing a user id both return true, and     *)
(* once all calls have returned, among the calls sharing a user id        *)
(* exactly one has returned true.                                         *)
C1_ExactlyOnePerSharedUser ==
    /\ NoOverlappingSuccesses
    /\ (\A h \in Calls : Returned(h)) =>
          \A u \in Users :
             Cardinality(CallsOf(u)) >= 2 =>
                Cardinality({h \in CallsOf(u) : ReturnedTrue(h)}) = 1

(* C1 amended: no two calls sharing a user id both return true, and every *)
(* call that returns false shares a user id with a call that returned     *)
(* true.                                                                  *)
C1_AtMostOneAndFailuresExplained ==
    /\ NoOverlappingSuccesses
    /\ \A h \in Calls :
          ReturnedFalse(h) => \E g \in Calls : Overlap(g, h) /\ ReturnedTrue(g)

C1_Witness ==
    /\ \A h \in Calls : Returned(h)
    /\ \E g \in Calls, h \in Calls :
          Overlap(g, h) /\ ReturnedTrue(g) /\ ReturnedFalse(h)

(* --------------------------------------------------------------------- *)
(* The registry in operation.                                            *)
(* --------------------------------------------------------------------- *)
Stored == {u \in Users : conversations[u] # NoConv}
Entry(u) == heap[conversations[u]]

(* C2: no user id is a participant of two different live conversations    *)
(* held by the registry.                                                  *)
C2_OneLiveConversationPerUser ==
    \A u \in Stored, v \in Stored :
        (conversations[u] # conversations[v] /\ Live(Entry(u), now) /\ Live(Entry(v), now))
            => Participants(Entry(u)) \cap Participants(Entry(v)) = {}

(* C3: whenever a conversation is stored under one participant's key, the *)
(* other participant's key holds an entry with the same conversation id.  *)
C3_BothKeysSameConversation ==
    \A u \in Stored :
        LET o == GetOtherParty(Entry(u), u)
        IN o \in Stored /\ Entry(o).ConversationID = Entry(u).ConversationID

(* a step of handler h that leaves program location loc, the process      *)
(* staying up                                                             *)
Leaves(h, loc) == hs[h].pc = loc /\ hs'[h].pc # loc /\ restarts' = restarts

(* C4: TryRegister(conv) returns true exactly when neither conv's         *)
(* initiator nor its counterpart holds an entry with                      *)
(* now - lastActivity <= timeout; when it returns true both user keys map *)
(* to conv with lastActivity = now, and when it returns false the         *)
(* registry map and the conversations it holds are left unchanged.        *)
C4_TryRegisterContract ==
    [][(reqs' # reqs /\ hs'[Probe].pc \in {"c_create", "c_check"}) =>
          LET i == hs'[Probe].user
              c == hs'[Probe].target
              ac == hs'[Probe].ac
              free == \A x \in {i, c} :
                         \/ conversations[x] = NoConv
                         \/ now - heap[conversations[x]].LastActivity > Timeout
          IN /\ (hs'[Probe].pc = "c_create") <=> free
             /\ hs'[Probe].pc = "c_create" =>
                   /\ conversations'[i] = ac
                   /\ conversations'[c] = ac
                   /\ heap'[ac] = ActiveConversation(0, i, c, now)
                   /\ \A x \in Users \ {i, c} :
                         /\ conversations'[x] = conversations[x]
                         /\ conversations[x] # NoConv =>
                               heap'[conversations[x]] = heap[conversations[x]]
             /\ hs'[Probe].pc = "c_check" =>
                   /\ conversations' = conversations
                   /\ \A x \in Users :
                         conversations[x] # NoConv =>
                            heap'[conversations[x]] = heap[conversations[x]]]_vars

(* TryRegister has returned true over a timed-out entry of one of its     *)
(* two users, whose other key still holds the old conversation            *)
C4_Witness ==
    /\ hs[Probe].pc = "c_create"
    /\ conversations[hs[Probe].user] = hs[Probe].ac
    /\ conversations[hs[Probe].target] = hs[Probe].ac
    /\ heap[hs[Probe].ac].LastActivity = now
    /\ \E v \in Stored :
          /\ conversations[v] # hs[Probe].ac
          /\ now - Entry(v).LastActivity > Timeout
          /\ Participants(Entry(v)) \cap {hs[Probe].user, hs[Probe].target} # {}

(* C5: Remove(conv) deletes a participant's key only if the entry stored  *)
(* under that key belongs to conv; an entry of a different conversation   *)
(* that reused the key survives, with or without durable ids assigned.    *)
C5_RemoveOnlyOwnEntries ==
    [][/\ \A h \in Handlers :
            (Leaves(h, "e_remove") \/ (Leaves(h, "c_create") /\ hs'[h].pc # "c_setid")) =>
               \A u \in Stored :
                  conversations'[u] = NoConv => conversations[u] = hs[h].ac
       /\ (tc.pc = "remove" /\ tc'.pc # "remove" /\ restarts' = restarts) =>
            \A u \in Stored :
               conversations'[u] = NoConv =>
                  /\ Entry(u).ConversationID = Head(tc.queue).ID
                  /\ Participants(Entry(u)) = {Head(tc.queue).InitiatorUserID,
                                               Head(tc.queue).CreatorUserID}]_vars

(* --------------------------------------------------------------------- *)
(* User A issues two concurrent contact requests, one for an order of B   *)
(* and one for an order of C, everybody being free.                       *)
(* --------------------------------------------------------------------- *)
ReqB == NumHandlers + 1
ReqC == NumHandlers + 2

NextContact ==
    \/ ContactTry(ReqB, "A", "B")
    \/ ContactTry(ReqC, "A", "C")
    \/ \E h \in {ReqB, ReqC} : ContactCheck(h)
    \/ \E h \in {ReqB, ReqC} : ContactCreate(h)
    \/ \E h \in {ReqB, ReqC} : ContactSetID(h)
    \/ \E h \in {ReqB, ReqC} : ContactRollback(h)
    \/ RaceTick

SpecContact == Init /\ [][NextContact]_vars

BothAnswered == hs[ReqB].pc = "done" /\ hs[ReqC].pc = "done"
OneStartedOtherYouBusy ==
    \E g \in {ReqB, ReqC}, h \in {ReqB, ReqC} :
        g # h /\ hs[g].out = "started" /\ hs[h].out = "you-busy"

ActiveRows == {i \in 1..Len(db) : db[i].Status = "active"}
RowUsers(i) == {db[i].InitiatorUserID, db[i].CreatorUserID}

ActiveRowsExclusive ==
    \A i \in ActiveRows, j \in ActiveRows : i # j => RowUsers(i) \cap RowUsers(j) = {}

(* C7: at every moment no user id appears in two active rows of durable   *)
(* storage, so that startup recovery leaves every recovered conversation  *)
(* stored under both of its participants' keys.                           *)
C7_DurableExclusiveAndRecoveryComplete ==
    /\ []ActiveRowsExclusive
    /\ [][restarts' # restarts =>
            \A i \in ActiveRows : \A u \in RowUsers(i) :
                /\ conversations'[u] # NoConv
                /\ heap'[conversations'[u]].ConversationID = i]_vars

(* C8: after a failed TryRegister the requester is told 'you already have *)
(* an active conversation' iff the requester held a live conversation     *)
(* when TryRegister failed, and 'the order creator is in another          *)
(* conversation' only when the counterpart held one.                      *)
C8_ReasonMatchesFailure ==
    [][\A h \in Handlers :
         Leaves(h, "c_check") =>
            /\ (CheckReason(h) = "you-busy") <=> hs[h].busySelf
            /\ (CheckReason(h) = "creator-busy") => hs[h].busyOther]_vars

(* --------------------------------------------------------------------- *)
(* Item prompts and the order list of a submission.                       *)
(* --------------------------------------------------------------------- *)
RECURSIVE SumShown(_, _)
SumShown(shown, names) ==
    IF names = {} THEN 0
    ELSE LET n == CHOOSE x \in names : TRUE
         IN shown[n] + SumShown(shown, names \ {n})

(* C9: across a whole submission workflow no raw item name is prompted    *)
(* for more than once, and the number of item prompts never exceeds the   *)
(* number of distinct raw item names of the payload.                      *)
C9_EachNamePromptedAtMostOnce ==
    \A r \in SubRefs :
        /\ \A n \in Names : prompted[r].Shown[n] <= 1
        /\ SumShown(prompted[r].Shown, Names) <= prompted[r].Unique

AllNamesMapped(sub) ==
    \A i \in 1..Len(sub.Items) : sub.Items[i].Name \in DOMAIN sub.ItemMappings

(* one order per payload line, in payload order, with that line's price   *)
(* and quantity and the item id mapped to its raw name                    *)
ExpandPayload(sub) ==
    [i \in 1..Len(sub.Items) |->
        [ItemID |-> sub.ItemMappings[sub.Items[i].Name],
         Price |-> sub.Items[i].Price,
         Quantity |-> sub.Items[i].Quantity]]

(* C10: for a stored submission whose port is confirmed and whose every   *)
(* distinct raw item name has a mapping (IsComplete), GetMarketOrders     *)
(* returns one order per payload line, in payload order, each with the    *)
(* line's price and quantity and the item id mapped to its raw name.      *)
C10_OrdersExpandPayload ==
    \A u \in Submitters :
        LET r == submissions[u]
        IN (/\ r # NoSub
            /\ pending[r].PortConfirmed
            /\ AllNamesMapped(pending[r])
            /\ IsComplete(pending[r]))
           => GetMarketOrders(submissions, pending, u) = ExpandPayload(pending[r])

(* --------------------------------------------------------------------- *)
(* Claims about the submission store                                     *)
(* --------------------------------------------------------------------- *)
CallStep(op) == call'.n # call.n /\ call'.op = op

(* C11: AddItemMapping(user, name, id) on a stored submission returns     *)
(* true and records name -> id when name has no mapping, and returns      *)
(* false leaving every mapping unchanged when name is already mapped;     *)
(* at every moment each mapped raw name maps to the id given by the       *)
(* first call made for it on that submission.                             *)
C11_FirstMappingWins ==
    /\ [][(CallStep("AddItemMapping") /\ submissions[call'.user] # NoSub) =>
            LET r == submissions[call'.user]
                m == pending[r].ItemMappings
                m2 == pending'[r].ItemMappings
            IN IF call'.name \notin DOMAIN m
               THEN /\ call'.ok
                    /\ DOMAIN m2 = DOMAIN m \cup {call'.name}
                    /\ m2[call'.name] = call'.id
                    /\ \A x \in DOMAIN m : m2[x] = m[x]
               ELSE /\ ~call'.ok
                    /\ pending'[r] = pending[r]]_vars
    /\ [](\A u \in Submitters : submissions[u] # NoSub =>
            LET r == submissions[u]
            IN \A x \in Names :
                  /\ (x \in DOMAIN pending[r].ItemMappings) <=> (firstID[r][x] # 0)
                  /\ x \in DOMAIN pending[r].ItemMappings =>
                        pending[r].ItemMappings[x] = firstID[r][x])

(* a repeat call for a mapped name with another id has been refused *)
C11_Witness ==
    /\ call.op = "AddItemMapping"
    /\ ~call.ok
    /\ call.ref # NoSub
    /\ submissions[call.user] = call.ref
    /\ call.name \in DOMAIN pending[call.ref].ItemMappings
    /\ pending[call.ref].ItemMappings[call.name] # call.id
    /\ pending[call.ref].ItemMappings[call.name] = firstID[call.ref][call.name]

(* C12: in every reachable state the item mapping of a pending submission *)
(* has at most as many entries as its payload has distinct raw names.     *)
C12_MappingWithinDistinctNames ==
    \A r \in SubRefs :
        pending[r] # NilSub =>
            Cardinality(DOMAIN pending[r].ItemMappings)
                <= Len(GetUniqueOCRItems(pending[r].Items))

(* C13: a submit request (Create) for a user who has a non-expired        *)
(* pending submission leaves the store's entry for that user and the      *)
(* submission it holds (payload, port, mappings, expiry) unchanged.       *)
C13_CreateRefusesOverwrite ==
    [][\A h \in Handlers :
          (ws[h].pc = "idle" /\ ws'[h].pc = "port") =>
             LET u == ws'[h].user
                 r == Get(submissions, pending, u, now)
             IN r # NoSub =>
                   /\ submissions'[u] = r
                   /\ pending'[r] = pending[r]]_vars

Expired(u) == submissions[u] # NoSub /\ now > pending[submissions[u]].ExpiresAt

(* C14: ConfirmPort on a stored submission whose port is already          *)
(* confirmed reports success and leaves the confirmed port id as it was.  *)
C14_ReconfirmKeepsPort ==
    [][(CallStep("ConfirmPort") /\ submissions[call'.user] # NoSub
          /\ pending[submissions[call'.user]].PortConfirmed) =>
            /\ call'.ok
            /\ pending'[submissions[call'.user]].PortID
                  = pending[submissions[call'.user]].PortID]_vars

(* C15: ConfirmPort, AddItemMapping, GetItemMapping, IsReady and          *)
(* GetMarketOrders called for a user with no entry, or with an entry past *)
(* its expiry (swept or not), report failure and leave the store          *)
(* unchanged.                                                             *)
C15_UnknownOrExpiredNotFound ==
    [][(/\ call'.n # call.n
        /\ call'.op \in {"ConfirmPort", "AddItemMapping", "GetItemMapping",
                         "IsReady", "GetMarketOrders"}
        /\ (submissions[call'.user] = NoSub \/ Expired(call'.user))) =>
            /\ ~call'.ok
            /\ submissions' = submissions
            /\ pending' = pending]_vars

(* C16: Get returns a submission only while the clock has not passed its  *)
(* expiry, whether or not the cleanup loop has deleted the entry yet; the *)
(* clock never goes back and no call moves the expiry of a stored         *)
(* submission, so a submission once refused is never returned again.      *)
C16_GetNeverReturnsExpired ==
    /\ [][CallStep("Get") =>
            /\ call'.ok <=> (submissions[call'.user] # NoSub /\ ~Expired(call'.user))
            /\ call'.ok => call'.ref = submissions[call'.user]
            /\ ~call'.ok => call'.ref = NoSub]_vars
    /\ [][/\ now' >= now
          /\ \A u \in Submitters :
                (submissions[u] # NoSub /\ submissions'[u] = submissions[u]) =>
                   pending'[submissions[u]].ExpiresAt = pending[submissions[u]].ExpiresAt]_vars

(* Get has refused a submission whose entry the cleanup loop has not      *)
(* deleted yet                                                            *)
C16_Witness ==
    /\ call.op = "Get"
    /\ ~call.ok
    /\ Expired(call.user)

(* C17: when the storage commit (ReplacePortOrders) fails, the store is   *)
(* left as it was: the user's entry, and the confirmed port and item      *)
(* mappings of the submission it holds, are unchanged.                    *)
C17_FailedCommitKeepsSubmission ==
    [][(CallStep("ReplacePortOrders") /\ ~call'.ok) =>
          /\ submissions' = submissions
          /\ \A u \in Submitters :
                submissions[u] # NoSub =>
                   pending'[submissions[u]] = pending[submissions[u]]]_vars

(* a commit has failed for a submission with a confirmed port and every   *)
(* name mapped, and the submission is still stored                        *)
C17_Witness ==
    /\ call.op = "ReplacePortOrders"
    /\ ~call.ok
    /\ submissions[call.user] = call.ref
    /\ call.ref # NoSub
    /\ pending[call.ref].PortConfirmed
    /\ pending[call.ref].ItemMappings # EmptyMappings
    /\ IsComplete(pending[call.ref])

(* C18: no submit request leaves an OCR payload with a missing port, an   *)
(* unrecognized order type or an empty item list in the submission store; *)
(* a request with such a payload is rejected and creates nothing.         *)
C18_MalformedPayloadNeverStored ==
    /\ [](\A r \in SubRefs :
            pending[r] # NilSub =>
               /\ pending[r].Port \notin {"", "unknown"}
               /\ pending[r].OrderType \in {"buy", "sell"}
               /\ pending[r].Items # <<>>)
    /\ [][(CallStep("handleSubmit") /\ ~call'.ok) =>
             (submissions' = submissions /\ pending' = pending)]_vars

(* a request whose payload has no items has been rejected while an        *)
(* earlier submission is pending                                          *)
C18_Witness ==
    /\ call.op = "handleSubmit"
    /\ ~call.ok
    /\ call.name = "no items found in screenshot"
    /\ \E u \in Submitters : submissions[u] # NoSub

(* --------------------------------------------------------------------- *)
(* Claims about the sweeps                                               *)
(* --------------------------------------------------------------------- *)
(* the steps of the three sweeps, told by what they alone change *)
SubmissionCleanupStep ==
    submissions' # submissions /\ ws' = ws /\ call' = call /\ restarts' = restarts
CleanupStep ==
    conversations' # conversations /\ hs' = hs /\ tc' = tc /\ restarts' = restarts
TcRemoveStep ==
    tc.pc = "remove" /\ tc' # tc /\ restarts' = restarts

Evicted == {u \in Users : conversations[u] # NoConv /\ conversations'[u] = NoConv}

(* C20: no sweep evicts an entry that is not expired: the submission      *)
(* cleanup deletes only submissions Get would no longer return, and       *)
(* neither the registry's cleanup loop nor the timeout checker removes a  *)
(* conversation whose in-memory last activity is within the timeout.      *)
C20_SweepsEvictOnlyExpired ==
    [][/\ SubmissionCleanupStep =>
             \A u \in Submitters :
                submissions'[u] # submissions[u] =>
                   Get(submissions, pending, u, now) = NoSub
       /\ (CleanupStep \/ TcRemoveStep) =>
             \A u \in Evicted : ~Live(heap[conversations[u]], now)]_vars

C20_CleanupLoopsEvictOnlyExpired ==
    [][/\ SubmissionCleanupStep =>
             \A u \in Submitters :
                submissions'[u] # submissions[u] =>
                   Get(submissions, pending, u, now) = NoSub
       /\ CleanupStep =>
             \A u \in Evicted : ~Live(heap[conversations[u]], now)]_vars

(* the conversation of row i is idle past the timeout: its row is active  *)
(* with a last message older than the timeout, and no registry entry for  *)
(* it has activity within the timeout                                     *)
HeldFor(i) == {u \in Users : conversations[u] # NoConv
                              /\ heap[conversations[u]].ConversationID = i}
IdlePastTimeout(i) ==
    /\ i <= Len(db)
    /\ db[i].Status = "active"
    /\ now - db[i].LastMessageAt > StaleAfter
    /\ \A u \in HeldFor(i) : ~Live(heap[conversations[u]], now)
ClosedOut(i) ==
    /\ i <= Len(db)
    /\ db[i].Status = "closed"
    /\ HeldFor(i) = {}
    /\ i \in notified

(* a message of the conversation has been recorded since: the row is     *)
(* active and its last message is within the timeout                      *)
Resumed(i) ==
    /\ i <= Len(db)
    /\ db[i].Status = "active"
    /\ now - db[i].LastMessageAt <= StaleAfter

UpperToLower == [c \in {"A", "C"} |-> IF c = "A" THEN "a" ELSE "c"]
IsLetter(c) == c \in {"a", "c", "e", "g", "n", "o", "s", "u", "A", "C"}
IsDigit(c) == c \in {"1"}
IsSpace(c) == c \in {" ", "\t"}

ToLower(s) ==
    [k \in 1..Len(s) |-> IF s[k] \in DOMAIN UpperToLower THEN UpperToLower[s[k]] ELSE s[k]]

RECURSIVE TrimLeft(_)
TrimLeft(s) ==
    IF s # <<>> /\ IsSpace(Head(s)) THEN TrimLeft(Tail(s)) ELSE s

RECURSIVE TrimRight(_)
TrimRight(s) ==
    IF s # <<>> /\ IsSpace(s[Len(s)]) THEN TrimRight(SubSeq(s, 1, Len(s) - 1)) ELSE s

TrimSpace(s) == TrimRight(TrimLeft(s))

(* strings.Fields: the maximal runs of characters that are not white space *)
RECURSIVE FieldsFrom(_, _, _)
FieldsFrom(s, word, acc) ==
    IF s = <<>> THEN (IF word = <<>> THEN acc ELSE Append(acc, word))
    ELSE IF IsSpace(Head(s))
         THEN FieldsFrom(Tail(s), <<>>, IF word = <<>> THEN acc ELSE Append(acc, word))
         ELSE FieldsFrom(Tail(s), Append(word, Head(s)), acc)

Fields(s) == FieldsFrom(s, <<>>, <<>>)

RECURSIVE Join(_, _)
Join(elems, sep) ==
    IF elems = <<>> THEN <<>>
    ELSE IF Len(elems) = 1 THEN elems[1]
    ELSE elems[1] \o sep \o Join(Tail(elems), sep)

Kept(r) == IsLetter(r) \/ IsDigit(r) \/ IsSpace(r)

(* the same function without the last step, the collapse of the spaces *)
normalizeWithoutCollapse(s) ==
    SelectSeq(TrimSpace(ToLower(s)), Kept)

normalize(s) ==
    Join(Fields(SelectSeq(TrimSpace(ToLower(s)), Kept)), <<" ">>)

min(a, b, c) ==
    IF a < b THEN (IF a < c THEN a ELSE c)
    ELSE IF b < c THEN b ELSE c

max(a, b) == IF a > b THEN a ELSE b

(* row i of the matrix from row i - 1; a row is indexed from 1, so the    *)
(* entry of column j is at j + 1                                          *)
RECURSIVE FillRow(_, _, _, _, _)
FillRow(a, b, prev, i, cur) ==
    LET j == Len(cur)
    IN IF j > Len(b) THEN cur
       ELSE LET cost == IF a[i] = b[j] THEN 0 ELSE 1
            IN FillRow(a, b, prev, i,
                       Append(cur, min(prev[j + 1] + 1, cur[j] + 1, prev[j] + cost)))

RECURSIVE FillMatrix(_, _, _, _)
FillMatrix(a, b, prev, i) ==
    IF i > Len(a) THEN prev
    ELSE FillMatrix(a, b, FillRow(a, b, prev, i, <<i>>), i + 1)

levenshtein(a, b) ==
    IF Len(a) = 0 THEN Len(b)
    ELSE IF Len(b) = 0 THEN Len(a)
    ELSE FillMatrix(a, b, [j \in 1..Len(b) + 1 |-> j - 1], 1)[Len(b) + 1]

One == [n |-> 1, d |-> 1]
Zero == [n |-> 0, d |-> 1]
HighConfidenceThreshold == [n |-> 17, d |-> 20]
MediumConfidenceThreshold == [n |-> 3, d |-> 5]
GE(s, t) == s.n * t.d >= t.n * s.d
GT(s, t) == s.n * t.d > t.n * s.d

(* the same function without the shortcut for equal strings *)
calculateSimilarityByDistanceOnly(a, b) ==
    LET distance == levenshtein(a, b)
        maxLen == max(Len(a), Len(b))
    IN IF maxLen = 0 THEN Zero
       ELSE [n |-> maxLen - distance, d |-> maxLen]

calculateSimilarity(a, b) ==
    IF a = b THEN One
    ELSE LET distance == levenshtein(a, b)
             maxLen == max(Len(a), Len(b))
         IN IF maxLen = 0 THEN Zero
            ELSE [n |-> maxLen - distance, d |-> maxLen]

(* the same function with the medium tier starting at the high threshold *)
getConfidenceHighOnly(score) ==
    IF GE(score, One) THEN "Exact"
    ELSE IF GE(score, HighConfidenceThreshold) THEN "High"
    ELSE IF GE(score, HighConfidenceThreshold) THEN "Medium"
    ELSE "Low"

getConfidence(score) ==
    IF GE(score, One) THEN "Exact"
    ELSE IF GE(score, HighConfidenceThreshold) THEN "High"
    ELSE IF GE(score, MediumConfidenceThreshold) THEN "Medium"
    ELSE "Low"

(* ------------------------- items, item_aliases ------------------------- *)
(* a row of items: the notes column is NULL in every row CreateItem has   *)
(* inserted, and Scan fails on a row with a NULL in notes                 *)
Item(id, name, notesNull) == [ID |-> id, Name |-> name, NotesNull |-> notesNull]
ItemAlias(itemID, alias) == [ItemID |-> itemID, Alias |-> alias]
NoItem == Item(0, <<>>, FALSE)

(* = ? COLLATE NOCASE *)
EqualNoCase(a, b) == ToLower(a) = ToLower(b)

(* the first row of the query and its Scan: NoItem stands for (nil, err) *)
getItemByName(items, name) ==
    LET rows == SelectSeq(items, LAMBDA item : EqualNoCase(item.Name, name))
    IN IF rows = <<>> \/ rows[1].NotesNull THEN NoItem ELSE rows[1]

getItemByAlias(items, aliases, alias) ==
    LET joined == SelectSeq(aliases, LAMBDA a : /\ EqualNoCase(a.Alias, alias)
                                                /\ \E k \in 1..Len(items) : items[k].ID = a.ItemID)
        item == items[CHOOSE k \in 1..Len(items) : items[k].ID = joined[1].ItemID]
    IN IF joined = <<>> THEN NoItem
       ELSE IF item.NotesNull THEN NoItem ELSE item

(* getAllItems fails when the Scan of one of the rows fails *)
getAllItemsOK(items) == \A k \in 1..Len(items) : ~items[k].NotesNull

getItemAliases(aliases, itemID) == SelectSeq(aliases, LAMBDA a : a.ItemID = itemID)

ItemMatch(item, score, confidence, matchedVia) ==
    [Item |-> item, Score |-> score, Confidence |-> confidence, MatchedVia |-> matchedVia]

(* the inner loop over the aliases of one item: the value of the local    *)
(* variable score when the loop ends                                      *)
RECURSIVE AliasLoop(_, _, _)
AliasLoop(score, normalized, itemAliases) ==
    IF itemAliases = <<>> THEN score
    ELSE LET aliasScore == calculateSimilarity(normalized, normalize(Head(itemAliases).Alias))
         IN AliasLoop(IF GT(aliasScore, score) THEN aliasScore ELSE score,
                      normalized, Tail(itemAliases))

(* the loop over the items: the match is appended with the score against  *)
(* the name, before the aliases are looked at, and the score the inner    *)
(* loop ends with is not used                                             *)
RECURSIVE FuzzyLoop(_, _, _, _, _)
FuzzyLoop(items, aliases, normalized, k, matches) ==
    IF k > Len(items) THEN matches
    ELSE LET item == items[k]
             score == calculateSimilarity(normalized, normalize(item.Name))
             appended == IF GE(score, MediumConfidenceThreshold)
                         THEN Append(matches, ItemMatch(item, score, getConfidence(score), "fuzzy"))
                         ELSE matches
             scoreAtEnd == AliasLoop(score, normalized, getItemAliases(aliases, item.ID))
         IN FuzzyLoop(items, aliases, normalized, k + 1, appended)

(* Item: &item.  With one loop variable for the whole loop (the language  *)
(* before go 1.22) every match points to that variable, which holds the   *)
(* last row when the loop has ended; with one variable per iteration      *)
(* every match points to its own row.                                     *)
PointedItems(items, matches, perIteration) ==
    IF perIteration THEN matches
    ELSE [k \in 1..Len(matches) |-> [matches[k] EXCEPT !.Item = items[Len(items)]]]

Swap(matches, i, j) == [matches EXCEPT ![i] = matches[j], ![j] = matches[i]]

RECURSIVE SortInner(_, _, _)
SortInner(matches, i, j) ==
    IF j > Len(matches) THEN matches
    ELSE SortInner(IF GT(matches[j].Score, matches[i].Score) THEN Swap(matches, i, j)
                   ELSE matches, i, j + 1)

RECURSIVE SortOuter(_, _)
SortOuter(matches, i) ==
    IF i > Len(matches) THEN matches
    ELSE SortOuter(SortInner(matches, i, i + 1), i + 1)

SortByScore(matches) == SortOuter(matches, 1)

Limit(matches, limit) ==
    IF Len(matches) > limit THEN SubSeq(matches, 1, limit) ELSE matches

FindItemMatches(name, limit, items, aliases, perIteration) ==
    LET normalized == normalize(name)
        exactItem == getItemByName(items, name)
        aliasItem == getItemByAlias(items, aliases, name)
    IN IF exactItem # NoItem
       THEN [err |-> FALSE, matches |-> <<ItemMatch(exactItem, One, "Exact", "exact")>>]
       ELSE IF aliasItem # NoItem
       THEN [err |-> FALSE, matches |-> <<ItemMatch(aliasItem, One, "Exact", "alias")>>]
       ELSE IF ~getAllItemsOK(items)
       THEN [err |-> TRUE, matches |-> <<>>]
       ELSE [err |-> FALSE,
             matches |-> Limit(SortByScore(PointedItems(items,
                             FuzzyLoop(items, aliases, normalized, 1, <<>>), perIteration)),
                               limit)]

(* --------------------------------------------------------------------- *)
(* The resolver's functions called on their own, in a process that does  *)
(* nothing else: query holds the arguments of one call and its results.  *)
(* --------------------------------------------------------------------- *)
MaxLen == 4
MaxItems == 3
MaxAliases == 1
MaxLimit == 2

Elsewhere ==
    /\ now = 0
    /\ heap = [r \in Refs |-> NoObj]
    /\ conversations = [u \in Users |-> NoConv]
    /\ db = <<>>
    /\ hs = [h \in Slots |-> Idle]
    /\ tc = IdleTc
    /\ restarts = 0
    /\ reqs = 0
    /\ submissions = [u \in Submitters |-> NoSub]
    /\ pending = [r \in SubRefs |-> NilSub]
    /\ ws = [h \in Handlers |-> IdleW]
    /\ ui = [u \in Submitters |-> {}]
    /\ prompted = [r \in SubRefs |-> NoPrompts]
    /\ call = NoCall
    /\ firstID = [r \in SubRefs |-> NoFirst]
    /\ notified = {}

rest == <<now, heap, conversations, db, hs, tc, restarts, reqs,
          submissions, pending, ws, ui, prompted, call, firstID, notified>>

Strings(chars) == UNION {[1..n -> chars] : n \in 0..MaxLen}

(* normalize(s), and normalize of its result *)
NormChars == {"a", "A", "1", " ", "\t", "-"}

InitNormalize ==
    /\ Elsewhere
    /\ \E s \in Strings(NormChars) :
          query = [op |-> "normalize", s |-> s, out |-> <<>>, again |-> <<>>, calls |-> 0]

CallNormalize ==
    /\ query.op = "normalize"
    /\ query.calls = 0
    /\ query' = [query EXCEPT !.out = normalize(query.s), !.calls = 1]
    /\ UNCHANGED rest

CallNormalizeAgain ==
    /\ query.op = "normalize"
    /\ query.calls = 1
    /\ query' = [query EXCEPT !.again = normalize(query.out), !.calls = 2]
    /\ UNCHANGED rest

NextNormalize == CallNormalize \/ CallNormalizeAgain

SpecNormalize == InitNormalize /\ [][NextNormalize]_vars

(* calculateSimilarity and levenshtein on a pair of strings *)
SimChars == {"a", "b"}

InitSimilarity ==
    /\ Elsewhere
    /\ \E a \in Strings(SimChars), b \in Strings(SimChars) :
          query = [op |-> "similarity", a |-> a, b |-> b, ab |-> Zero, ba |-> Zero,
                   aa |-> Zero, distance |-> 0, calls |-> 0]

CallCalculateSimilarity ==
    /\ query.op = "similarity"
    /\ query.calls = 0
    /\ query' = [query EXCEPT !.ab = calculateSimilarity(query.a, query.b),
                              !.ba = calculateSimilarity(query.b, query.a),
                              !.aa = calculateSimilarity(query.a, query.a),
                              !.calls = 1]
    /\ UNCHANGED rest

CallLevenshtein ==
    /\ query.op = "similarity"
    /\ query.calls = 1
    /\ query' = [query EXCEPT !.distance = levenshtein(query.a, query.b), !.calls = 2]
    /\ UNCHANGED rest

NextSimilarity == CallCalculateSimilarity \/ CallLevenshtein

SpecSimilarity == InitSimilarity /\ [][NextSimilarity]_vars

(* FindItemMatches on a table of items and a table of aliases *)
Cannon == <<"C", "a", "n", "n", "o", "n">>
Cann == <<"c", "a", "n", "n">>
Nnon == <<"n", "n", "o", "n">>
Canno == <<"c", "a", "n", "n", "o">>
RawCannon == <<"c", "a", "n", "n", "o", "n">>
RawCannons == <<"c", "a", "n", "n", "o", "n", "s">>
Gun == <<"g", "u", "n">>

ItemNames == {Cannon, Cann, Nnon, Canno}
AliasNames == {Gun, Canno}
RawNames == {RawCannon, RawCannons, Gun}

(* items.name is UNIQUE; the ids are given in the order of insertion *)
ItemTables ==
    UNION {{[k \in 1..n |-> Item(k, names[k], nulls[k])] :
               names \in {f \in [1..n -> ItemNames] : \A i, j \in 1..n : i # j => f[i] # f[j]},
               nulls \in [1..n -> BOOLEAN]} : n \in 0..MaxItems}

(* item_aliases.alias is UNIQUE COLLATE NOCASE, item_id references items *)
AliasTables(items) ==
    UNION {{[k \in 1..n |-> ItemAlias(ids[k], names[k])] :
               names \in {f \in [1..n -> AliasNames] :
                             \A i, j \in 1..n : i # j => ~EqualNoCase(f[i], f[j])},
               ids \in [1..n -> 1..Len(items)]} : n \in 0..MaxAliases}

NoResult == [err |-> FALSE, matches |-> <<>>]

InitResolve ==
    /\ Elsewhere
    /\ \E name \in RawNames, items \in ItemTables :
          \E aliases \in AliasTables(items) :
              query = [op |-> "FindItemMatches", name |-> name, items |-> items,
                       aliases |-> aliases, limit |-> 0, perIteration |-> FALSE,
                       out |-> NoResult, calls |-> 0]

CallFindItemMatches(limit, perIteration) ==
    /\ query.op = "FindItemMatches"
    /\ query.calls = 0
    /\ query' = [query EXCEPT !.limit = limit, !.perIteration = perIteration,
                              !.out = FindItemMatches(query.name, limit, query.items,
                                                      query.aliases, perIteration),
                              !.calls = 1]
    /\ UNCHANGED rest

NextResolve == \E limit \in 1..MaxLimit, perIteration \in BOOLEAN :
                   CallFindItemMatches(limit, perIteration)

SpecResolve == InitResolve /\ [][NextResolve]_vars

(* --------------------------------------------------------------------- *)
(* The submission workflow on a registry.  query holds the tables the    *)
(* resolver reads (ports, port_aliases, items, item_aliases) and the     *)
(* loop-variable semantics of the build; what FindPortMatches and        *)
(* FindItemMatches return is computed from them, and CreatePort and      *)
(* CreateItem insert their row.  One request is served at a time.        *)
(* --------------------------------------------------------------------- *)
(* ------------------------- ports, port_aliases ------------------------- *)
(* a row of ports: the notes column is NULL in every row CreatePort has   *)
(* inserted, and Scan fails on a row with a NULL in notes                 *)
Port(id, name, notesNull) == [ID |-> id, Name |-> name, NotesNull |-> notesNull]
PortAlias(portID, alias) == [PortID |-> portID, Alias |-> alias]
NoPortRow == Port(0, <<>>, FALSE)

(* the first row of the query and its Scan: NoPortRow stands for (nil, err) *)
getPortByName(ports, name) ==
    LET rows == SelectSeq(ports, LAMBDA port : EqualNoCase(port.Name, name))
    IN IF rows = <<>> \/ rows[1].NotesNull THEN NoPortRow ELSE rows[1]

getPortByAlias(ports, aliases, alias) ==
    LET joined == SelectSeq(aliases, LAMBDA a : /\ EqualNoCase(a.Alias, alias)
                                                /\ \E k \in 1..Len(ports) : ports[k].ID = a.PortID)
        port == ports[CHOOSE k \in 1..Len(ports) : ports[k].ID = joined[1].PortID]
    IN IF joined = <<>> THEN NoPortRow
       ELSE IF port.NotesNull THEN NoPortRow ELSE port

(* getAllPorts fails when the Scan of one of the rows fails; ports is     *)
(* kept in the order of the name column (ORDER BY name)                   *)
getAllPortsOK(ports) == \A k \in 1..Len(ports) : ~ports[k].NotesNull

PortMatch(port, score, confidence, matchedVia) ==
    [Port |-> port, Score |-> score, Confidence |-> confidence, MatchedVia |-> matchedVia]

(* the loop over the ports, the sort and the limit are those of           *)
(* FindItemMatches, statement by statement                                *)
FindPortMatches(name, limit, ports, aliases, perIteration) ==
    LET normalized == normalize(name)
        exactPort == getPortByName(ports, name)
        aliasPort == getPortByAlias(ports, aliases, name)
        portAliases == [k \in 1..Len(aliases) |-> ItemAlias(aliases[k].PortID, aliases[k].Alias)]
        matches == Limit(SortByScore(PointedItems(ports,
                             FuzzyLoop(ports, portAliases, normalized, 1, <<>>), perIteration)),
                         limit)
    IN IF exactPort # NoPortRow
       THEN [err |-> FALSE, matches |-> <<PortMatch(exactPort, One, "Exact", "exact")>>]
       ELSE IF aliasPort # NoPortRow
       THEN [err |-> FALSE, matches |-> <<PortMatch(aliasPort, One, "Exact", "alias")>>]
       ELSE IF ~getAllPortsOK(ports)
       THEN [err |-> TRUE, matches |-> <<>>]
       ELSE [err |-> FALSE,
             matches |-> [k \in 1..Len(matches) |->
                             PortMatch(matches[k].Item, matches[k].Score,
                                       matches[k].Confidence, matches[k].MatchedVia)]]

(* ------------------------------ registries ----------------------------- *)
Wood == <<"W", "o", "o", "d">>
Woods == <<"W", "o", "o", "d", "s">>
PortRoyale == <<"P", "o", "r", "t", " ", "R", "o", "y", "a", "l", "e">>
PortRoyal == <<"P", "o", "r", "t", " ", "R", "o", "y", "a", "l">>

(* the characters of the names the OCR payloads carry *)
Runes(s) ==
    CASE s = "Cannon" -> Cannon
      [] s = "Wood" -> Wood
      [] s = "Port Royale" -> PortRoyale

Registry(ports, portAliases, items, aliases, perIteration) ==
    [op |-> "registry", ports |-> ports, portAliases |-> portAliases,
     items |-> items, aliases |-> aliases, perIteration |-> perIteration]

(* an empty registry; one holding the rows the bot itself has inserted    *)
(* (notes NULL); and registries whose rows have their notes filled in:    *)
(* the payload's names known by name, by alias, by a close name, or by a  *)
(* name that is only similar                                              *)
Registries ==
    { Registry(<<>>, <<>>, <<>>, <<>>, b) : b \in BOOLEAN }
    \cup { Registry(<<Port(1, PortRoyale, TRUE)>>, <<>>,
                    <<Item(1, Cannon, TRUE)>>, <<>>, b) : b \in BOOLEAN }
    \cup { Registry(<<Port(1, PortRoyale, FALSE)>>, <<>>,
                    <<Item(1, RawCannons, FALSE), Item(2, Wood, FALSE)>>, <<>>, b) : b \in BOOLEAN }
    \cup { Registry(<<Port(1, PortRoyal, FALSE)>>, <<PortAlias(1, PortRoyale)>>,
                    <<Item(1, Woods, FALSE)>>, <<ItemAlias(1, Cannon)>>, b) : b \in BOOLEAN }
    \cup { Registry(<<Port(1, PortRoyal, FALSE)>>, <<>>,
                    <<Item(1, Canno, FALSE)>>, <<>>, b) : b \in BOOLEAN }

InitFlow ==
    /\ Elsewhere
    /\ query \in Registries

(* Bot.processPortMatching on what FindPortMatches(sub.OCRResult.Port, 10) *)
(* returns                                                               *)
PortMatches(h) ==
    FindPortMatches(Runes(pending[ws[h].sub].Port), 10, query.ports, query.portAliases,
                    query.perIteration)

FlowPortMatching(h) ==
    /\ ws[h].pc = "port"
    /\ LET matches == PortMatches(h)
       IN IF matches.err
          THEN ProcessPortMatching(h, "error", NoPort)
          ELSE IF Len(matches.matches) > 0 /\ matches.matches[1].Confidence = "Exact"
          THEN ProcessPortMatching(h, "exact", matches.matches[1].Port.ID)
          ELSE ProcessPortMatching(h, "ask", NoPort)

(* INSERT INTO ports: name is UNIQUE, the id is the next one, notes is NULL *)
CreatePortOK(ports, name) == \A k \in 1..Len(ports) : ports[k].Name # name
CreatePort(ports, name) == Append(ports, Port(Len(ports) + 1, name, TRUE))

(* Bot.handleCreatePortModal: db.CreatePort with the name the modal is    *)
(* prefilled with, then ConfirmPort; ok is whether the database executes  *)
(* the statement                                                          *)
FlowCreatePortConfirm(h, ok) ==
    /\ ws[h].pc = "cp_confirm"
    /\ LET portName == Runes(pending[ws[h].sub].Port)
       IN IF ok /\ CreatePortOK(query.ports, portName)
          THEN /\ query' = [query EXCEPT !.ports = CreatePort(query.ports, portName)]
               /\ pending' = ConfirmPort(submissions, pending, ws[h].user, Len(query.ports) + 1)
               /\ ws' = [ws EXCEPT ![h].pc = "match"]
               /\ UNCHANGED submissions
          ELSE /\ Return(h, submissions, pending)
               /\ UNCHANGED query
    /\ UNCHANGED <<now, reqs, ui, prompted, convvars, call, firstID>>

(* Bot.processItemMatching on what FindItemMatches(nextItem, 5) returns *)
ItemMatches(h) ==
    FindItemMatches(Runes(ws[h].item), 5, query.items, query.aliases, query.perIteration)

FlowMatchFound(h) ==
    /\ ws[h].pc = "found"
    /\ LET matches == ItemMatches(h)
       IN IF matches.err
          THEN MatchFound(h, "error", 0)
          ELSE IF Len(matches.matches) > 0 /\ matches.matches[1].Confidence = "High"
          THEN MatchFound(h, "high", matches.matches[1].Item.ID)
          ELSE IF Len(matches.matches) > 0 /\ matches.matches[1].Confidence = "Exact"
          THEN MatchFound(h, "exact", matches.matches[1].Item.ID)
          ELSE MatchFound(h, "ask", 0)

(* INSERT INTO items: name is UNIQUE, the id is the next one, notes is NULL *)
CreateItemOK(items, name) == \A k \in 1..Len(items) : items[k].Name # name
CreateItem(items, name) == Append(items, Item(Len(items) + 1, name, TRUE))

(* Bot.handleItemConfirm: db.CreateItem for "new", then AddItemMapping *)
FlowItemConfirmAdd(h, ok) ==
    /\ ws[h].pc = "ic_add"
    /\ LET itemName == Runes(ws[h].item)
       IN IF ws[h].value # 0
          THEN /\ pending' = AddItemMapping(submissions, pending, ws[h].user, ws[h].item,
                                            ws[h].value)
               /\ ws' = [ws EXCEPT ![h].pc = "complete"]
               /\ UNCHANGED <<submissions, query>>
          ELSE IF ok /\ CreateItemOK(query.items, itemName)
          THEN /\ query' = [query EXCEPT !.items = CreateItem(query.items, itemName)]
               /\ pending' = AddItemMapping(submissions, pending, ws[h].user, ws[h].item,
                                            Len(query.items) + 1)
               /\ ws' = [ws EXCEPT ![h].pc = "complete"]
               /\ UNCHANGED submissions
          ELSE /\ Return(h, submissions, pending)
               /\ UNCHANGED query
    /\ UNCHANGED <<now, reqs, ui, prompted, convvars, call, firstID>>

NextFlow ==
    \/ \E u \in Submitters, p \in Payloads : HandleSubmit(Solo, u, p)
    \/ FlowPortMatching(Solo)
    \/ \E u \in Submitters, id \in PortIDs : HandlePortSelect(Solo, u, id)
    \/ PortSelectGet(Solo)
    \/ \E u \in Submitters : HandleCreatePortModal(Solo, u)
    \/ \E ok \in BOOLEAN : FlowCreatePortConfirm(Solo, ok)
    \/ MatchNext(Solo)
    \/ FlowMatchFound(Solo)
    \/ CheckComplete(Solo)
    \/ \E u \in Submitters, n \in Names, v \in {0} \cup ItemIDs :
          HandleItemConfirm(Solo, u, n, v)
    \/ \E ok \in BOOLEAN : FlowItemConfirmAdd(Solo, ok)
    \/ CommitSubmission(Solo)
    \/ SubmissionCleanup
    \/ Tick

SpecFlow == InitFlow /\ [][NextFlow]_vars

(* --------------------------------------------------------------------- *)
(* One round of the timeout checker.  Conversations are started and      *)
(* ended through one handler, so that rows whose close has failed stay   *)
(* behind, while the cleanup loop and the timeout checker run; the       *)
(* process does not restart.                                             *)
(* --------------------------------------------------------------------- *)
NextRound ==
    \/ \E u \in Users, c \in OrderOwners : ContactTry(Solo, u, c)
    \/ ContactCheck(Solo)
    \/ ContactCreate(Solo)
    \/ ContactSetID(Solo)
    \/ ContactRollback(Solo)
    \/ \E u \in Users : EndGet(Solo, u)
    \/ \E ok \in BOOLEAN : EndClose(Solo, ok)
    \/ EndRemove(Solo)
    \/ Cleanup
    \/ TcScan
    \/ \E ok \in BOOLEAN : TcClose(ok)
    \/ TcRemove
    \/ Tick

SpecRound == Init /\ [][NextRound]_vars

TcStep == tc.pc # "idle" /\ tc' # tc /\ restarts' = restarts
QueueIds(q) == {q[k].ID : k \in 1..Len(q)}
HeldAfter(i) == {u \in Users : conversations'[u] # NoConv
                                /\ heap'[conversations'[u]].ConversationID = i}

(* C21: within one round of the timeout checker no stale row found by the *)
(* round is dropped: a row leaves the round's queue only as its head,     *)
(* either when its own close has failed or when it has been closed, taken *)
(* out of the registry and its participants have been sent the notice;    *)
(* and the round goes on as long as rows are left, whatever happened to   *)
(* the rows before.                                                       *)
C21_RoundAttemptsEveryRow ==
    [][TcStep =>
         /\ \A i \in QueueIds(tc.queue) :
               \/ i \in QueueIds(tc'.queue) /\ tc'.pc # "idle"
               \/ /\ i = Head(tc.queue).ID
                  /\ tc.pc = "close"
                  /\ db' = db
               \/ /\ i = Head(tc.queue).ID
                  /\ tc.pc = "remove"
                  /\ db[i].Status = "closed"
                  /\ HeldAfter(i) = {}
                  /\ i \in notified'
         /\ tc.pc = "close" /\ db' # db => tc'.pc = "remove" /\ tc'.queue = tc.queue]_vars

(* the close of one row has failed in this round and a later row of the   *)
(* round has been closed and awaits its removal and notice                *)
C21_Witness ==
    /\ tc.pc = "remove"
    /\ tc.failed # {}
    /\ db[Head(tc.queue).ID].Status = "closed"
    /\ \A i \in tc.failed : db[i].Status = "active"

(* --------------------------------------------------------------------- *)
(* Reading the registry.                                                 *)
(* --------------------------------------------------------------------- *)
(* C22: at any moment, for every user, GetByUser and                      *)
(* HasActiveConversation report absence when the user's stored            *)
(* conversation has now - lastActivity > timeout (the entry being still   *)
(* in the map) and when there is no entry, report presence (GetByUser     *)
(* returning the stored conversation) when now - lastActivity <= timeout, *)
(* and so always agree.                                                   *)
C22_ReadsAgreeOnLiveness ==
    \A u \in Users :
        /\ GetByUser(conversations, heap, u, now) # NoConv
              <=> HasActiveConversation(conversations, heap, u, now)
        /\ u \notin Stored => ~HasActiveConversation(conversations, heap, u, now)
        /\ u \in Stored /\ now - Entry(u).LastActivity > Timeout
              => GetByUser(conversations, heap, u, now) = NoConv
        /\ u \in Stored /\ now - Entry(u).LastActivity <= Timeout
              => GetByUser(conversations, heap, u, now) = conversations[u]

(* the map holds an entry past the timeout that no sweep has removed yet, *)
(* and an entry whose age is exactly the timeout                          *)
C22_Witness ==
    \E u \in Stored, v \in Stored :
        /\ now - Entry(u).LastActivity > Timeout
        /\ now - Entry(v).LastActivity = Timeout
        /\ GetByUser(conversations, heap, v, now) = conversations[v]
        /\ ~HasActiveConversation(conversations, heap, u, now)

(* --------------------------------------------------------------------- *)
(* Touch on a relayed message.                                           *)
(* --------------------------------------------------------------------- *)
Got(u) == GetByUser(conversations, heap, u, now)
GotAfter(u) == GetByUser(conversations', heap', u, now')
RelayTouchStep(h) == hs[h].pc = "r_touch" /\ hs'[h].pc = "r_db" /\ restarts' = restarts
(* conversation c is taken back by the handler that was creating it, or  *)
(* ended by a participant: the Remove of initiateTradeContact and of      *)
(* handleTradeEnd                                                         *)
EndedBy(c) ==
    \E g \in Handlers : /\ hs[g].pc \in {"c_create", "e_remove"}
                        /\ hs'[g] # hs[g]
                        /\ hs[g].ac = c
(* both index entries of conversation c hold it *)
UnderBothKeys(c) == \A p \in Participants(heap[c]) : conversations[p] = c

(* the Touch of a relayed message, made by a participant whose key holds  *)
(* a live conversation stored under both keys, sets the one timestamp,    *)
(* and GetByUser returns that conversation for both participants right    *)
(* after                                                                  *)
TouchRefreshesBoth ==
    \A h \in Handlers :
        (/\ RelayTouchStep(h)
         /\ Got(hs[h].user) # NoConv
         /\ UnderBothKeys(conversations[hs[h].user])) =>
            LET c == conversations[hs[h].user]
            IN /\ heap'[c].LastActivity = now
               /\ \A p \in Participants(heap[c]) : GotAfter(p) = c

(* after the Touch of handler h (which has not gone on yet), as long as   *)
(* the timeout period since the touch lasts and the conversation is       *)
(* neither taken back nor ended, GetByUser keeps returning it for both    *)
(* participants                                                           *)
TouchedStaysReturned ==
    \A h \in Handlers :
        LET c == hs[h].ac
        IN (/\ hs[h].pc = "r_db"
            /\ hs'[h] = hs[h]
            /\ restarts' = restarts
            /\ \A p \in Participants(heap[c]) : Got(p) = c
            /\ ~EndedBy(c)
            /\ now' - heap[c].LastActivity <= Timeout)
           => \A p \in Participants(heap[c]) : GotAfter(p) = c

(* C23: Touch(u) by either participant of a live conversation refreshes   *)
(* the one timestamp shared by both index entries: right after it, and    *)
(* for the whole following timeout period without further activity,       *)
(* GetByUser returns the conversation for both participants; every        *)
(* relayed message performs such a touch.                                 *)
C23_TouchKeepsConversationReturned ==
    [][TouchRefreshesBoth /\ TouchedStaysReturned]_vars

(* the first half on its own *)
C23_TouchRefreshesBoth == [][TouchRefreshesBoth]_vars

(* --------------------------------------------------------------------- *)
(* Who touches a stored object.                                          *)
(* --------------------------------------------------------------------- *)
(* the conversation at reference r can be reached through the registry *)
InRegistry(r) == \E u \in Users : conversations[u] = r

(* C24: the conversation id of a conversation stored in the registry is   *)
(* written only by the registry's operations: no handler is about to      *)
(* assign ac.ConversationID itself while the object is stored, where      *)
(* every other goroutine can reach it.                                    *)
C24_StoredFieldsOnlyUnderLock ==
    \A h \in Handlers : hs[h].pc = "c_setid" => ~InRegistry(hs[h].ac)

(* --------------------------------------------------------------------- *)
(* The results of the name resolver.                                     *)
(* --------------------------------------------------------------------- *)
Resolved == query.op = "FindItemMatches" /\ query.calls = 1
ExactRows == {k \in 1..Len(query.items) : EqualNoCase(query.items[k].Name, query.name)}
AliasRows == {k \in 1..Len(query.aliases) : EqualNoCase(query.aliases[k].Alias, query.name)}
Scannable == \A k \in 1..Len(query.items) : ~query.items[k].NotesNull
Range(s) == {s[k] : k \in 1..Len(s)}
SameScore(s, t) == s.n * t.d = t.n * s.d

ExactAndAliasFirst ==
    /\ ExactRows # {} =>
          \E k \in ExactRows :
              query.out = [err |-> FALSE,
                           matches |-> <<ItemMatch(query.items[k], One, "Exact", "exact")>>]
    /\ ExactRows = {} /\ AliasRows # {} =>
          \E k \in AliasRows :
              query.out = [err |-> FALSE,
                           matches |-> <<ItemMatch(query.items[query.aliases[k].ItemID],
                                                   One, "Exact", "alias")>>]
    /\ (\E m \in Range(query.out.matches) : m.MatchedVia = "fuzzy") =>
          ExactRows = {} /\ AliasRows = {}

(* C25: when the name of some item equals the raw name without regard to  *)
(* case, the resolver returns exactly one result: that item, score 1.0,   *)
(* tier Exact, origin exact; failing that, when an alias equals the raw   *)
(* name, exactly one result with the aliased item and origin alias; and   *)
(* fuzzy results are returned only when there is neither.                 *)
C25_ExactThenAliasThenFuzzy == Resolved => ExactAndAliasFirst

(* the same on tables in which no row has a NULL in notes *)
C25_ExactThenAliasThenFuzzyWhenScannable == (Resolved /\ Scannable) => ExactAndAliasFirst

(* the fuzzy tier: no name and no alias equals the raw name, and the      *)
(* items could be read                                                    *)
FuzzyTier == Resolved /\ ExactRows = {} /\ AliasRows = {} /\ ~query.out.err

BestOf(scores) == CHOOSE s \in scores : \A t \in scores : GE(s, t)
BestScore(item) ==
    LET normalized == normalize(query.name)
        itemAliases == getItemAliases(query.aliases, item.ID)
    IN BestOf({calculateSimilarity(normalized, normalize(item.Name))}
              \cup {calculateSimilarity(normalized, normalize(itemAliases[k].Alias)) :
                       k \in 1..Len(itemAliases)})
Candidates == {k \in 1..Len(query.items) :
                  GE(BestScore(query.items[k]), MediumConfidenceThreshold)}

(* C26: in the fuzzy tier an item is in the result, with the best of the  *)
(* similarities of the normalized raw name to its normalized name and to  *)
(* its normalized aliases as its score, if and only if that best score is *)
(* at least 0.60 (when the limit does not cut the list).                  *)
C26_BestOfNameAndAliases ==
    (FuzzyTier /\ Cardinality(Candidates) <= query.limit) =>
        \A k \in 1..Len(query.items) :
            (k \in Candidates) <=>
                \E m \in Range(query.out.matches) :
                    /\ m.Item.ID = query.items[k].ID
                    /\ SameScore(m.Score, BestScore(query.items[k]))

(* C27: the fuzzy result is ordered by score descending, items of equal   *)
(* score in the order of the table, it has at most limit entries, and     *)
(* no item left out ranks before one that is in it.                       *)
Before(m1, m2) ==
    \/ GT(m1.Score, m2.Score)
    \/ SameScore(m1.Score, m2.Score) /\ m1.Item.ID < m2.Item.ID
Unlimited ==
    FuzzyLoop(query.items, query.aliases, normalize(query.name), 1, <<>>)
C27_OrderedStableAndLimited ==
    FuzzyTier =>
        LET ms == query.out.matches
        IN /\ Len(ms) <= query.limit
           /\ \A i, j \in 1..Len(ms) : i < j => Before(ms[i], ms[j])
           /\ \A c \in Range(Unlimited) :
                 (\A i \in 1..Len(ms) : ms[i].Item.ID # c.Item.ID) =>
                     /\ Len(ms) = query.limit
                     /\ \A i \in 1..Len(ms) : Before(ms[i], c)

RECURSIVE EditDistance(_, _)
EditDistance(a, b) ==
    IF a = <<>> THEN Len(b)
    ELSE IF b = <<>> THEN Len(a)
    ELSE IF Head(a) = Head(b) THEN EditDistance(Tail(a), Tail(b))
    ELSE 1 + min(EditDistance(Tail(a), b), EditDistance(a, Tail(b)),
                 EditDistance(Tail(a), Tail(b)))

(* C29: for all strings a and b, 0 <= similarity(a,b) <= 1, similarity is *)
(* symmetric, similarity(a,a) = 1.0 (for the empty string too), and for   *)
(* a # b similarity(a,b) = 1 - editDistance(a,b) / max(len(a), len(b)),   *)
(* levenshtein being the unit-cost edit distance.                         *)
C29_SimilarityLaws ==
    /\ (query.op = "similarity" /\ query.calls >= 1) =>
          /\ query.ab.d > 0 /\ query.ab.n >= 0 /\ query.ab.n <= query.ab.d
          /\ SameScore(query.ab, query.ba)
          /\ query.aa = One
          /\ query.a # query.b =>
                LET maxLen == max(Len(query.a), Len(query.b))
                IN SameScore(query.ab, [n |-> maxLen - EditDistance(query.a, query.b),
                                        d |-> maxLen])
    /\ (query.op = "similarity" /\ query.calls = 2) =>
          query.distance = EditDistance(query.a, query.b)

(* two different non-empty strings that are partly similar *)
C29_Witness ==
    /\ query.op = "similarity"
    /\ query.calls = 2
    /\ query.a # <<>> /\ query.b # <<>>
    /\ Len(query.a) # Len(query.b)
    /\ query.ab.n > 0 /\ query.ab.n < query.ab.d
    /\ query.distance > 1

(* C30: normalize is defined on every string and idempotent, and its      *)
(* result is lower-case, has no space at either end, no two spaces in a   *)
(* row, and only letters, digits and the space character.                 *)
C30_NormalizeIdempotent ==
    /\ (query.op = "normalize" /\ query.calls >= 1) =>
          LET out == query.out
          IN /\ \A k \in 1..Len(out) :
                    /\ out[k] \notin DOMAIN UpperToLower
                    /\ IsLetter(out[k]) \/ IsDigit(out[k]) \/ out[k] = " "
                    /\ out[k] = " " => k > 1 /\ k < Len(out) /\ out[k + 1] # " "
    /\ (query.op = "normalize" /\ query.calls = 2) => query.again = query.out

(* an input with an upper-case letter, a special character and white      *)
(* space that normalize has changed and normalized again                  *)
C30_Witness ==
    /\ query.op = "normalize"
    /\ query.calls = 2
    /\ "A" \in Range(query.s)
    /\ "-" \in Range(query.s)
    /\ " " \in Range(query.out)
    /\ query.again = query.out

(* --------------------------------------------------------------------- *)
(* Claims about the workflow on a registry                               *)
(* --------------------------------------------------------------------- *)
(* the step of processPortMatching that follows FindPortMatches *)
PortStep(h) == ws[h].pc = "port" /\ ws'[h].pc # "port"

(* the rows of ports whose name, or one of whose aliases, is the OCR port *)
(* name (compared as the queries compare: without regard to case)         *)
PortRowsNamed(name) ==
    {k \in 1..Len(query.ports) :
        \/ EqualNoCase(query.ports[k].Name, name)
        \/ \E j \in 1..Len(query.portAliases) :
              /\ query.portAliases[j].PortID = query.ports[k].ID
              /\ EqualNoCase(query.portAliases[j].Alias, name)}

(* the step confirms a port of those rows, shows no prompt and goes on to *)
(* item matching                                                          *)
PortAutoConfirmed(h, rows) ==
    /\ pending'[ws[h].sub].PortConfirmed
    /\ \E k \in rows : pending'[ws[h].sub].PortID = query.ports[k].ID
    /\ ui' = ui
    /\ ws'[h].pc = "match"

(* the step shows the port prompt, ends the request and leaves the port   *)
(* unconfirmed                                                            *)
PortPrompted(h) ==
    /\ "port" \in ui'[ws[h].user]
    /\ ws'[h].pc = "idle"
    /\ ~pending'[ws[h].sub].PortConfirmed

(* a port becomes confirmed only by the automatic confirmation or by the  *)
(* user's answer to the port prompt (a selection, or a new port)          *)
PortConfirmedOnlyBy ==
    \A r \in SubRefs :
        (~pending[r].PortConfirmed /\ pending'[r].PortConfirmed) =>
            \E h \in Handlers :
                \/ PortStep(h) /\ PortRowsNamed(Runes(pending[ws[h].sub].Port)) # {}
                \/ ws[h].pc = "idle" /\ ws'[h].pc = "ps_get" /\ "port" \in ui[ws'[h].user]
                \/ ws[h].pc = "cp_confirm"

(* C31: when the OCR port name is the name or an alias of a registered    *)
(* port, processPortMatching confirms that port, shows no port prompt and *)
(* goes on to item matching; in every other case it shows the port       *)
(* prompt and the port stays unconfirmed until the user answers.          *)
C31_ExactPortConfirmedElsePrompt ==
    [][/\ \A h \in Handlers :
             PortStep(h) =>
                LET rows == PortRowsNamed(Runes(pending[ws[h].sub].Port))
                IN IF rows # {} THEN PortAutoConfirmed(h, rows) ELSE PortPrompted(h)
       /\ PortConfirmedOnlyBy]_vars

(* the same on the registries whose rows can all be scanned (no NULL in   *)
(* notes), for a submission that is still the one stored for its user     *)
C31_ExactPortConfirmedElsePromptWhenScannable ==
    [][/\ \A h \in Handlers :
             (/\ PortStep(h)
              /\ getAllPortsOK(query.ports)
              /\ submissions[ws[h].user] = ws[h].sub) =>
                LET rows == PortRowsNamed(Runes(pending[ws[h].sub].Port))
                IN IF rows # {} THEN PortAutoConfirmed(h, rows) ELSE PortPrompted(h)
       /\ PortConfirmedOnlyBy]_vars

(* the step of processItemMatching that follows FindItemMatches *)
ItemStep(h) == ws[h].pc = "found" /\ ws'[h].pc # "found"

(* the tier of the best match of a result *)
TopTier(matches) ==
    IF matches.err \/ matches.matches = <<>> THEN "None" ELSE matches.matches[1].Confidence

(* the candidate whose name gave the best match its score: the item of    *)
(* the first result when every result keeps the row it was computed for   *)
BestCandidate(h) ==
    FindItemMatches(Runes(ws[h].item), 5, query.items, query.aliases, TRUE).matches[1].Item

(* the step maps the name to the best match, and shows no prompt *)
ItemAutoMapped(h) ==
    LET m == pending'[ws[h].sub].ItemMappings
    IN /\ ws[h].item \in DOMAIN m
       /\ m[ws[h].item] = BestCandidate(h).ID
       /\ ui' = ui
       /\ prompted' = prompted

(* the step shows one prompt for the name, ends the request and maps      *)
(* nothing                                                                *)
ItemPrompted(h) ==
    /\ ui'[ws[h].user] = ui[ws[h].user] \cup {ws[h].item}
    /\ prompted'[ws[h].sub].Shown[ws[h].item] = prompted[ws[h].sub].Shown[ws[h].item] + 1
    /\ \A n \in Names \ {ws[h].item} :
          prompted'[ws[h].sub].Shown[n] = prompted[ws[h].sub].Shown[n]
    /\ ws'[h].pc = "idle"
    /\ ws[h].item \notin DOMAIN pending'[ws[h].sub].ItemMappings

(* a name of a submission becomes mapped only by the automatic mapping of *)
(* an Exact or High match or by the user's answer to its prompt           *)
ItemMappedOnlyBy ==
    \A r \in SubRefs, n \in Names :
        (n \notin DOMAIN pending[r].ItemMappings /\ n \in DOMAIN pending'[r].ItemMappings) =>
            \E h \in Handlers :
                \/ ItemStep(h) /\ ws[h].item = n /\ TopTier(ItemMatches(h)) \in {"Exact", "High"}
                \/ ws[h].pc = "ic_add" /\ ws[h].item = n

(* C32: during item matching a raw name whose best match has tier Exact   *)
(* or High is mapped to that match without a prompt; a name whose best    *)
(* match is Medium, or that has no match at or above 0.60, gets exactly   *)
(* one prompt and is mapped only by the user's answer.                    *)
C32_AutoMapExactOrHighElsePrompt ==
    [][/\ \A h \in Handlers :
             (ItemStep(h) /\ ~ItemMatches(h).err) =>
                IF TopTier(ItemMatches(h)) \in {"Exact", "High"}
                THEN ItemAutoMapped(h) ELSE ItemPrompted(h)
       /\ ItemMappedOnlyBy]_vars

(* the same when every result keeps the row it was computed for (one loop *)
(* variable per iteration) and the submission is still the one stored for *)
(* its user                                                               *)
C32_AutoMapExactOrHighElsePromptWhenStored ==
    [][/\ \A h \in Handlers :
             (/\ ItemStep(h)
              /\ ~ItemMatches(h).err
              /\ query.perIteration
              /\ submissions[ws[h].user] = ws[h].sub) =>
                IF TopTier(ItemMatches(h)) \in {"Exact", "High"}
                THEN ItemAutoMapped(h) ELSE ItemPrompted(h)
       /\ ItemMappedOnlyBy]_vars

(* --------------------------------------------------------------------- *)
(* Ending a conversation                                                 *)
(* --------------------------------------------------------------------- *)
(* the last step of handleTradeEnd: Remove, after which the request is    *)
(* answered                                                               *)
EndRemoveStep(h) == hs[h].pc = "e_remove" /\ hs'[h].pc # "e_remove"

(* the row of the conversation object r exists and is closed *)
DurablyClosed(r, table) ==
    /\ heap[r].ConversationID \in 1..Len(table)
    /\ table[heap[r].ConversationID].Status = "closed"

(* C36: when a participant's trade-end request completes, the             *)
(* conversation is closed in trade_conversations and the key of neither   *)
(* participant holds it, whatever the contact request that created it,    *)
(* the relays and the sweeps have done in between.                        *)
C36_EndClosesRowAndFreesBoth ==
    [][\A h \in Slots :
          EndRemoveStep(h) =>
             /\ DurablyClosed(hs[h].ac, db')
             /\ \A u \in Users : conversations'[u] # hs[h].ac]_vars

(* --------------------------------------------------------------------- *)
(* Timed-out entries, and the rollback of a registration                 *)
(* --------------------------------------------------------------------- *)
(* the key of u holds an entry that GetByUser no longer returns *)
TimedOut(u) ==
    conversations[u] # NoConv /\ GetByUser(conversations, heap, u, now) = NoConv

(* C37: once the entry under a user's key has timed out (GetByUser no     *)
(* longer returns it) no operation but a new registration (TryRegister,   *)
(* or Register on restart) makes that entry live again: as long as the    *)
(* key holds it GetByUser keeps refusing it, whatever is touched.         *)
C37_TimedOutEntryNeverRevived ==
    [][\A u \in Users :
          (/\ TimedOut(u)
           /\ conversations'[u] = conversations[u]
           /\ restarts' = restarts) =>
             GetByUser(conversations', heap', u, now') = NoConv]_vars

(* the step of initiateTradeContact that rolls the registration back *)
RollbackStep(h) == hs[h].pc = "c_create" /\ hs'[h].pc \notin {"c_create", "c_setid"}

(* C38: when the durable write fails after TryRegister succeeded, the     *)
(* rollback removes exactly the entries that request inserted: no key     *)
(* holds its conversation afterwards, a user whose key held it (or        *)
(* nothing) has no active conversation, and every key that held another   *)
(* conversation still holds it.                                           *)
C38_RollbackRemovesExactlyOwnEntries ==
    [][\A h \in Slots :
          RollbackStep(h) =>
             /\ \A u \in Users : conversations'[u] # hs[h].ac
             /\ \A u \in {hs[h].user, hs[h].target} :
                   conversations[u] \in {hs[h].ac, NoConv} =>
                      ~HasActiveConversation(conversations', heap', u, now')
             /\ \A u \in Users :
                   conversations[u] # hs[h].ac => conversations'[u] = conversations[u]]_vars

(* --------------------------------------------------------------------- *)
(* The commit of a submission, and the matching loop                     *)
(* --------------------------------------------------------------------- *)
(* C33: ReplacePortOrders is invoked for a submission only when that      *)
(* submission's port is confirmed and every distinct raw item name of     *)
(* its payload has a mapping.                                             *)
C33_CommitOnlyWhenConfirmedAndComplete ==
    [][CallStep("ReplacePortOrders") =>
          /\ pending[call'.ref].PortConfirmed
          /\ AllNamesMapped(pending[call'.ref])]_vars

(* no handler ever stands before the call of ReplacePortOrders *)
CommitNeverReached == \A h \in Handlers : ws[h].pc # "store"

(* the step of commitSubmission that follows GetMarketOrders *)
CommitStep(h) == ws[h].pc = "commit" /\ ws'[h].pc # "commit"

(* the submission the handler holds is the one stored for its user, its   *)
(* port is confirmed and every raw name of its payload is mapped          *)
ReadyToCommit(h) ==
    /\ submissions[ws[h].user] = ws[h].sub
    /\ pending[ws[h].sub].PortConfirmed
    /\ AllNamesMapped(pending[ws[h].sub])
    /\ IsComplete(pending[ws[h].sub])

(* C34: once the port of a submission is confirmed and its last unmapped  *)
(* raw name has received a mapping, commitSubmission builds the order     *)
(* list and invokes ReplacePortOrders; after a successful commit the      *)
(* submission is no longer in the store.                                  *)
C34_CompleteSubmissionIsCommitted ==
    [][/\ \A h \in Handlers :
             (CommitStep(h) /\ ReadyToCommit(h)) => ws'[h].pc = "store"
       /\ (CallStep("ReplacePortOrders") /\ call'.ok) =>
             submissions'[call'.user] = NoSub]_vars

(* C35: every iteration of processItemMatching leaves the raw name it     *)
(* examined mapped in the submission it iterates over, or shows a prompt  *)
(* for it, or aborts (so that the loop terminates), also when the user's  *)
(* store entry is removed, swept or replaced while the loop runs.         *)
C35_EveryIterationMakesProgress ==
    [][\A h \in Handlers :
          ItemStep(h) =>
             \/ ws[h].item \in DOMAIN pending'[ws[h].sub].ItemMappings
             \/ ws'[h].pc = "idle" /\ ws[h].item \in ui'[ws[h].user]
             \/ ws'[h].pc = "idle" /\ submissions'[ws[h].user] = NoSub
             \/ ws'[h].pc = "stopped"]_vars

(* the same for a submission that is still the one stored for its user *)
C35_EveryIterationMakesProgressWhenStored ==
    [][\A h \in Handlers :
          (ItemStep(h) /\ submissions[ws[h].user] = ws[h].sub) =>
             \/ ws[h].item \in DOMAIN pending'[ws[h].sub].ItemMappings
             \/ ws'[h].pc = "idle" /\ ws[h].item \in ui'[ws[h].user]
             \/ ws'[h].pc = "idle" /\ submissions'[ws[h].user] = NoSub
             \/ ws'[h].pc = "stopped"]_vars

(* C39: in a fuzzy result every match refers to the row of items whose    *)
(* name gave the match its score, and no two matches refer to the same    *)
(* row.                                                                   *)
C39_EachMatchRefersToItsCandidate ==
    FuzzyTier =>
        LET ms == query.out.matches
        IN /\ \A k \in 1..Len(ms) :
                 SameScore(ms[k].Score,
                           calculateSimilarity(normalize(query.name), normalize(ms[k].Item.Name)))
           /\ \A i, j \in 1..Len(ms) : i # j => ms[i].Item.ID # ms[j].Item.ID

(* the same when the build gives every iteration its own loop variable *)
C39_EachMatchRefersToItsCandidateWhenPerIteration ==
    (FuzzyTier /\ query.perIteration) =>
        LET ms == query.out.matches
        IN /\ \A k \in 1..Len(ms) :
                 SameScore(ms[k].Score,
                           calculateSimilarity(normalize(query.name), normalize(ms[k].Item.Name)))
           /\ \A i, j \in 1..Len(ms) : i # j => ms[i].Item.ID # ms[j].Item.ID

====
